---- MODULE Spec2Model ----
(***************************************************************************)
(* Rules engine of the Rock-Paper-Scissors board game (src/game.py):       *)
(* Piece, Board, Player and Game.  The board is Board.grid, a size x size  *)
(* table of optional pieces; the Game object holds the board, the players  *)
(* with their unplaced pieces, the current player index, the game_over     *)
(* flag, the winner and the turn timer.                                    *)
(***************************************************************************)
EXTENDS Integers, Sequences, FiniteSets, TLC

\* ---------------------------------------------------------------- constants
BOARD_SIZE == 6

TURN_TIME == 15

PIECE_COUNT == 4

BOARD_MARGIN == 50

\* ------------------------------------------------------------------- bounds
\* Calls of play_turn / update_timer made after setup_board in one run.
MaxCalls == 1

\* Outcomes of random.shuffle / random.randint explored per player.
NumShuffles == 2

\* Calls explored from a position of a game in progress.
MaxMidCalls == 1

\* Pieces left on the board in a position of a game in progress.
MaxMidPieces == 2

\* AI turns explored from a position of a game in progress.
MaxAiCalls == 1

\* Clicks, timer ticks and AI turns of the GUI explored from a position of a
\* game in progress.
MaxGuiCalls == 2

\* ------------------------------------------------------------------- pieces
piece_types == <<"R", "P", "S">>

PieceTypes == {"R", "P", "S"}

\* Python's None for an optional Piece (an empty cell, no captured piece).
None == [type |-> "None", player_id |-> 0]

Piece(piece_type, player_id) == [type |-> piece_type, player_id |-> player_id]

Rows == 0 .. (BOARD_SIZE - 1)

\* Board.__init__: every cell None.
Board_init == [r \in Rows |-> [c \in Rows |-> None]]

InBounds(row, col) == 0 <= row /\ row < BOARD_SIZE /\ 0 <= col /\ col < BOARD_SIZE

Abs(x) == IF x < 0 THEN -x ELSE x

SetCell(grid, row, col, piece) == [grid EXCEPT ![row][col] = piece]

\* ------------------------------------------------------------------- Board
\* Board.place_piece: never overwrites, never leaves the board.
place_piece(grid, row, col, piece) ==
    IF InBounds(row, col) /\ grid[row][col] = None
    THEN [grid |-> SetCell(grid, row, col, piece), ok |-> TRUE]
    ELSE [grid |-> grid, ok |-> FALSE]

\* resolve_combat with the Scissors-beats-Paper case left out.
resolve_combat_no_scissors(piece1, piece2) ==
    IF piece1.type = piece2.type THEN 0
    ELSE IF \/ (piece1.type = "R" /\ piece2.type = "S")
            \/ (piece1.type = "P" /\ piece2.type = "R")
         THEN 1
         ELSE -1

\* Board.resolve_combat: 1 piece1 wins, -1 piece2 wins, 0 draw.
resolve_combat(piece1, piece2) ==
    IF piece1.type = piece2.type THEN 0
    ELSE IF \/ (piece1.type = "R" /\ piece2.type = "S")
            \/ (piece1.type = "P" /\ piece2.type = "R")
            \/ (piece1.type = "S" /\ piece2.type = "P")
         THEN 1
         ELSE -1

\* The sound tag move_piece computes for a combat.
\* A combat type taken from the moving piece alone.
combat_type_of_attacker(moving_piece, target_piece) ==
    IF moving_piece.type = "R" THEN "combat_rock"
    ELSE IF moving_piece.type = "P" THEN "combat_paper"
    ELSE "combat_scissors"

combat_type_of(moving_piece, target_piece) ==
    IF moving_piece.type = "R" \/ target_piece.type = "R" THEN "combat_rock"
    ELSE IF moving_piece.type = "P" \/ target_piece.type = "P" THEN "combat_paper"
    ELSE IF moving_piece.type = "S" \/ target_piece.type = "S" THEN "combat_scissors"
    ELSE ""

MoveFailed(grid) ==
    [grid |-> grid, success |-> FALSE, captured |-> None, combat_type |-> ""]

\* move_piece without the check for a target of the same player.
move_piece_checked_friendly_fire(grid, from_row, from_col, to_row, to_col) ==
    LET moving_piece == grid[from_row][from_col]
        target_piece == grid[to_row][to_col]
        result == resolve_combat(moving_piece, target_piece)
    IN  IF target_piece = None \/ result = 1
        THEN [grid |-> SetCell(SetCell(grid, to_row, to_col, moving_piece),
                               from_row, from_col, None),
              success |-> TRUE, captured |-> target_piece,
              combat_type |-> IF target_piece = None THEN ""
                              ELSE combat_type_of(moving_piece, target_piece)]
        ELSE IF result = -1
        THEN [grid |-> SetCell(grid, from_row, from_col, None),
              success |-> TRUE, captured |-> moving_piece,
              combat_type |-> combat_type_of(moving_piece, target_piece)]
        ELSE [grid |-> SetCell(SetCell(grid, from_row, from_col, None),
                               to_row, to_col, None),
              success |-> TRUE, captured |-> moving_piece,
              combat_type |-> combat_type_of(moving_piece, target_piece)]

\* move_piece that leaves a losing attacker on its origin cell.
move_piece_checked_keep_loser(grid, from_row, from_col, to_row, to_col) ==
    LET moving_piece == grid[from_row][from_col]
        target_piece == grid[to_row][to_col]
        result == resolve_combat(moving_piece, target_piece)
        combat_type == combat_type_of(moving_piece, target_piece)
    IN  IF target_piece = None
        THEN [grid |-> SetCell(SetCell(grid, to_row, to_col, moving_piece),
                               from_row, from_col, None),
              success |-> TRUE, captured |-> None, combat_type |-> ""]
        ELSE IF target_piece.player_id = moving_piece.player_id
        THEN MoveFailed(grid)
        ELSE IF result = 1
        THEN [grid |-> SetCell(SetCell(grid, to_row, to_col, moving_piece),
                               from_row, from_col, None),
              success |-> TRUE, captured |-> target_piece,
              combat_type |-> combat_type]
        ELSE IF result = -1
        THEN [grid |-> grid,
              success |-> TRUE, captured |-> moving_piece,
              combat_type |-> combat_type]
        ELSE [grid |-> SetCell(SetCell(grid, from_row, from_col, None),
                               to_row, to_col, None),
              success |-> TRUE, captured |-> moving_piece,
              combat_type |-> combat_type]

\* move_piece whose draw removes the attacker only.
move_piece_checked_draw_keeps_target(grid, from_row, from_col, to_row, to_col) ==
    LET moving_piece == grid[from_row][from_col]
        target_piece == grid[to_row][to_col]
        result == resolve_combat(moving_piece, target_piece)
        combat_type == combat_type_of(moving_piece, target_piece)
    IN  IF target_piece = None
        THEN [grid |-> SetCell(SetCell(grid, to_row, to_col, moving_piece),
                               from_row, from_col, None),
              success |-> TRUE, captured |-> None, combat_type |-> ""]
        ELSE IF target_piece.player_id = moving_piece.player_id
        THEN MoveFailed(grid)
        ELSE IF result = 1
        THEN [grid |-> SetCell(SetCell(grid, to_row, to_col, moving_piece),
                               from_row, from_col, None),
              success |-> TRUE, captured |-> target_piece,
              combat_type |-> combat_type]
        ELSE [grid |-> SetCell(grid, from_row, from_col, None),
              success |-> TRUE, captured |-> moving_piece,
              combat_type |-> combat_type]

\* move_piece whose winning attacker takes the destination without leaving
\* its origin cell.
move_piece_checked_winner_stays(grid, from_row, from_col, to_row, to_col) ==
    LET moving_piece == grid[from_row][from_col]
        target_piece == grid[to_row][to_col]
        result == resolve_combat(moving_piece, target_piece)
        combat_type == combat_type_of(moving_piece, target_piece)
    IN  IF target_piece = None
        THEN [grid |-> SetCell(SetCell(grid, to_row, to_col, moving_piece),
                               from_row, from_col, None),
              success |-> TRUE, captured |-> None, combat_type |-> ""]
        ELSE IF target_piece.player_id = moving_piece.player_id
        THEN MoveFailed(grid)
        ELSE IF result = 1
        THEN [grid |-> SetCell(grid, to_row, to_col, moving_piece),
              success |-> TRUE, captured |-> target_piece,
              combat_type |-> combat_type]
        ELSE IF result = -1
        THEN [grid |-> SetCell(grid, from_row, from_col, None),
              success |-> TRUE, captured |-> moving_piece,
              combat_type |-> combat_type]
        ELSE [grid |-> SetCell(SetCell(grid, from_row, from_col, None),
                               to_row, to_col, None),
              success |-> TRUE, captured |-> moving_piece,
              combat_type |-> combat_type]

\* move_piece whose winning attacker takes on the type of the piece it
\* captures.
move_piece_checked_promotes(grid, from_row, from_col, to_row, to_col) ==
    LET moving_piece == grid[from_row][from_col]
        target_piece == grid[to_row][to_col]
        result == resolve_combat(moving_piece, target_piece)
        combat_type == combat_type_of(moving_piece, target_piece)
    IN  IF target_piece = None
        THEN [grid |-> SetCell(SetCell(grid, to_row, to_col, moving_piece),
                               from_row, from_col, None),
              success |-> TRUE, captured |-> None, combat_type |-> ""]
        ELSE IF target_piece.player_id = moving_piece.player_id
        THEN MoveFailed(grid)
        ELSE IF result = 1
        THEN [grid |-> SetCell(SetCell(grid, to_row, to_col,
                                       Piece(target_piece.type,
                                             moving_piece.player_id)),
                               from_row, from_col, None),
              success |-> TRUE, captured |-> target_piece,
              combat_type |-> combat_type]
        ELSE IF result = -1
        THEN [grid |-> SetCell(grid, from_row, from_col, None),
              success |-> TRUE, captured |-> moving_piece,
              combat_type |-> combat_type]
        ELSE [grid |-> SetCell(SetCell(grid, from_row, from_col, None),
                               to_row, to_col, None),
              success |-> TRUE, captured |-> moving_piece,
              combat_type |-> combat_type]

\* The part of Board.move_piece after the three validity checks.
move_piece_checked(grid, from_row, from_col, to_row, to_col) ==
    LET moving_piece == grid[from_row][from_col]
        target_piece == grid[to_row][to_col]
        result == resolve_combat(moving_piece, target_piece)
        combat_type == combat_type_of(moving_piece, target_piece)
    IN  IF target_piece = None
        THEN [grid |-> SetCell(SetCell(grid, to_row, to_col, moving_piece),
                               from_row, from_col, None),
              success |-> TRUE, captured |-> None, combat_type |-> ""]
        ELSE IF target_piece.player_id = moving_piece.player_id
        THEN MoveFailed(grid)
        ELSE IF result = 1
        THEN [grid |-> SetCell(SetCell(grid, to_row, to_col, moving_piece),
                               from_row, from_col, None),
              success |-> TRUE, captured |-> target_piece,
              combat_type |-> combat_type]
        ELSE IF result = -1
        THEN [grid |-> SetCell(grid, from_row, from_col, None),
              success |-> TRUE, captured |-> moving_piece,
              combat_type |-> combat_type]
        ELSE [grid |-> SetCell(SetCell(grid, from_row, from_col, None),
                               to_row, to_col, None),
              success |-> TRUE, captured |-> moving_piece,
              combat_type |-> combat_type]

\* Board.move_piece: (success, captured piece, combat type) and the new grid.
move_piece(grid, from_row, from_col, to_row, to_col) ==
    IF ~(InBounds(from_row, from_col) /\ InBounds(to_row, to_col))
    THEN MoveFailed(grid)
    ELSE IF grid[from_row][from_col] = None
    THEN MoveFailed(grid)
    ELSE IF Abs(to_row - from_row) + Abs(to_col - from_col) # 1
    THEN MoveFailed(grid)
    ELSE move_piece_checked(grid, from_row, from_col, to_row, to_col)

\* The cells in the order of the two nested loops of get_player_pieces.
RowMajor == [i \in 1 .. (BOARD_SIZE * BOARD_SIZE) |->
                <<(i - 1) \div BOARD_SIZE, (i - 1) % BOARD_SIZE>>]

\* Board.get_player_pieces: (row, col, piece) triples in row-major order.
get_player_pieces(grid, player_id) ==
    LET owned(rc) == /\ grid[rc[1]][rc[2]] # None
                     /\ grid[rc[1]][rc[2]].player_id = player_id
        cells == SelectSeq(RowMajor, owned)
    IN  [i \in 1 .. Len(cells) |->
            <<cells[i][1], cells[i][2], grid[cells[i][1]][cells[i][2]]>>]

\* ------------------------------------------------------------------ Player
\* Player.__init__: piece_count pieces of each type, in the order R, P, S.
Player_init(player_id) ==
    [i \in 1 .. (Len(piece_types) * PIECE_COUNT) |->
        Piece(piece_types[((i - 1) \div PIECE_COUNT) + 1], player_id)]

RemoveAt(seq, i) == SubSeq(seq, 1, i - 1) \o SubSeq(seq, i + 1, Len(seq))

\* Player.get_random_piece; piece_index is what random.randint returned.
get_random_piece(pieces, piece_index) ==
    IF pieces = <<>>
    THEN [piece |-> None, pieces |-> pieces]
    ELSE [piece |-> pieces[piece_index + 1],
          pieces |-> RemoveAt(pieces, piece_index + 1)]

\* -------------------------------------------------------------------- Game
\* winner = None
NoWinner == 0

PlayerIds(num_players) == 1 .. num_players

\* Game.__init__ for num_players in [2, 3] (anything else raises ValueError).
Game_init(num_players) ==
    [grid |-> Board_init,
     num_players |-> num_players,
     pieces |-> [p \in PlayerIds(num_players) |-> Player_init(p)],
     current_player_index |-> 0,
     game_over |-> FALSE,
     winner |-> NoWinner,
     turn_timer |-> TURN_TIME]

\* A constructor that clamps the number of players into 2..3.
Game_new_coerced(num_players) ==
    [raised |-> "",
     game |-> Game_init(IF num_players < 2 THEN 2
                        ELSE IF num_players > 3 THEN 3 ELSE num_players)]

\* Game(num_players): the exception raised ("" if none) and, if none, the
\* object constructed.
Game_new(num_players) ==
    IF num_players \notin {2, 3}
    THEN [raised |-> "ValueError"]
    ELSE [raised |-> "", game |-> Game_init(num_players)]

\* starting_areas of setup_board, as lists of (row, col).
starting_areas(num_players) ==
    IF num_players = 3
    THEN << << <<0,0>>, <<0,1>>, <<0,2>>, <<0,3>>, <<1,0>>, <<1,1>>, <<1,2>>, <<1,3>> >>,
            << <<0,4>>, <<0,5>>, <<1,4>>, <<1,5>>, <<2,4>>, <<2,5>>, <<3,4>>, <<3,5>> >>,
            << <<4,0>>, <<4,1>>, <<4,2>>, <<4,3>>, <<5,0>>, <<5,1>>, <<5,2>>, <<5,3>> >> >>
    ELSE << << <<0,0>>, <<0,1>>, <<0,2>>, <<0,3>>, <<0,4>>, <<0,5>>,
               <<1,0>>, <<1,1>>, <<1,2>>, <<1,3>>, <<1,4>>, <<1,5>> >>,
            << <<4,0>>, <<4,1>>, <<4,2>>, <<4,3>>, <<4,4>>, <<4,5>>,
               <<5,0>>, <<5,1>>, <<5,2>>, <<5,3>>, <<5,4>>, <<5,5>> >> >>

\* The loop "for _ in range(4 * 3)" of setup_board for one player, from its
\* k-th iteration on; area is the shuffled area, picks[k] the random index
\* get_random_piece draws in iteration k.
RECURSIVE setup_player(_, _, _, _, _)
setup_player(grid, pieces, area, picks, k) ==
    IF k > 4 * 3 \/ area = <<>>
    THEN [grid |-> grid, pieces |-> pieces]
    ELSE LET got == get_random_piece(pieces, picks[k])
         IN  IF got.piece = None
             THEN setup_player(grid, pieces, area, picks, k + 1)
             ELSE LET cell == area[Len(area)]
                      rest == SubSeq(area, 1, Len(area) - 1)
                      put == place_piece(grid, cell[1], cell[2], got.piece)
                  IN  setup_player(put.grid, got.pieces, rest, picks, k + 1)

\* The loop of setup_board over the players, from player player_id on.
\* rnd[p].area is the outcome of random.shuffle for player p, rnd[p].picks
\* the outcomes of its random.randint calls.
RECURSIVE setup_players(_, _, _)
setup_players(G, rnd, player_id) ==
    IF player_id > G.num_players
    THEN G
    ELSE LET done == setup_player(G.grid, G.pieces[player_id],
                                  rnd[player_id].area, rnd[player_id].picks, 1)
         IN  setup_players([G EXCEPT !.grid = done.grid,
                                     !.pieces[player_id] = done.pieces],
                           rnd, player_id + 1)

\* Game.setup_board.
setup_board(G, rnd) == setup_players(G, rnd, 1)

\* check_game_over that ends the game only once no player has pieces.
check_game_over_none_left(G) ==
    LET active == {p \in 1 .. G.num_players :
                      \E r \in 0 .. (BOARD_SIZE - 1), c \in 0 .. (BOARD_SIZE - 1) :
                          G.grid[r][c].player_id = p}
    IN  IF active = {}
        THEN [game |-> [G EXCEPT !.game_over = TRUE, !.winner = 0],
              result |-> TRUE]
        ELSE [game |-> G, result |-> FALSE]

\* A check_game_over that ends the game while two players still have pieces.
check_game_over_two_left(G) ==
    LET active == {p \in PlayerIds(G.num_players) :
                      get_player_pieces(G.grid, p) # <<>>}
        last_active_player ==
            IF active = {} THEN NoWinner
            ELSE CHOOSE p \in active : \A q \in active : q <= p
    IN  IF Cardinality(active) <= 2
        THEN [game |-> [G EXCEPT !.game_over = TRUE,
                                 !.winner = last_active_player],
              result |-> TRUE]
        ELSE [game |-> G, result |-> FALSE]

\* A check_game_over that names the player to move as the winner.
check_game_over_current_wins(G) ==
    LET active == {p \in PlayerIds(G.num_players) :
                      get_player_pieces(G.grid, p) # <<>>}
    IN  IF Cardinality(active) <= 1
        THEN [game |-> [G EXCEPT !.game_over = TRUE,
                                 !.winner = G.current_player_index + 1],
              result |-> TRUE]
        ELSE [game |-> G, result |-> FALSE]

\* Game.check_game_over: the new state and the value returned.
check_game_over(G) ==
    LET active == {p \in PlayerIds(G.num_players) :
                      get_player_pieces(G.grid, p) # <<>>}
        active_players == Cardinality(active)
        last_active_player ==
            IF active = {} THEN NoWinner
            ELSE CHOOSE p \in active : \A q \in active : q <= p
    IN  IF active_players <= 1
        THEN [game |-> [G EXCEPT !.game_over = TRUE,
                                 !.winner = last_active_player],
              result |-> TRUE]
        ELSE [game |-> G, result |-> FALSE]

\* A skip loop that returns at once, whoever the current player is.
skip_players_no_skip(G, advances) == [game |-> G, advances |-> advances]

\* A skip loop that never calls check_game_over; it is cut off after two
\* rounds of the players, where the loop it stands for would run on.
RECURSIVE skip_players_unchecked(_, _)
skip_players_unchecked(G, advances) ==
    IF get_player_pieces(G.grid, G.current_player_index + 1) # <<>>
          \/ advances > 2 * G.num_players
    THEN [game |-> G, advances |-> advances]
    ELSE skip_players_unchecked(
             [G EXCEPT !.current_player_index =
                 (G.current_player_index + 1) % G.num_players],
             advances + 1)

\* The "skip players with no pieces" loop of next_turn; advances counts the
\* index advances made so far.
RECURSIVE skip_players(_, _)
skip_players(G, advances) ==
    IF get_player_pieces(G.grid, G.current_player_index + 1) # <<>>
    THEN [game |-> G, advances |-> advances]
    ELSE LET c == check_game_over(G)
         IN  IF c.result
             THEN [game |-> c.game, advances |-> advances]
             ELSE skip_players(
                      [c.game EXCEPT !.current_player_index =
                          (c.game.current_player_index + 1) % c.game.num_players],
                      advances + 1)

\* next_turn that advances the index and leaves the turn timer running.
next_turn_counted_keeps_timer(G) ==
    skip_players([G EXCEPT !.current_player_index =
                               (G.current_player_index + 1) % G.num_players], 1)

\* Game.next_turn, with the number of index advances it made.
next_turn_counted(G) ==
    skip_players([G EXCEPT !.current_player_index =
                               (G.current_player_index + 1) % G.num_players,
                           !.turn_timer = TURN_TIME], 1)

\* Game.next_turn.
next_turn(G) == next_turn_counted(G).game

\* Python list indexing grid[i]: -size .. size-1 are valid, negative indices
\* count from the end, anything else raises IndexError.
IndexOk(i) == -BOARD_SIZE <= i /\ i < BOARD_SIZE

PyIndex(i) == IF i < 0 THEN i + BOARD_SIZE ELSE i

\* Game.play_turn: the new state, the exception raised ("" if none) and the
\* pair (success, combat type) returned.
play_turn(G, from_row, from_col, to_row, to_col) ==
    IF ~(IndexOk(from_row) /\ IndexOk(from_col))
    THEN [game |-> G, raised |-> "IndexError", success |-> FALSE, combat_type |-> ""]
    ELSE LET current_player_id == G.current_player_index + 1
             source == G.grid[PyIndex(from_row)][PyIndex(from_col)]
             m == move_piece(G.grid, from_row, from_col, to_row, to_col)
         IN  IF source = None \/ source.player_id # current_player_id
             THEN [game |-> G, raised |-> "", success |-> FALSE, combat_type |-> ""]
             ELSE IF m.success
             THEN [game |-> next_turn([G EXCEPT !.grid = m.grid]),
                   raised |-> "", success |-> TRUE, combat_type |-> m.combat_type]
             ELSE [game |-> G, raised |-> "", success |-> FALSE, combat_type |-> ""]

\* The steps get_valid_moves tries, in order: right, down, left, up.
directions == <<<<0, 1>>, <<1, 0>>, <<0, -1>>, <<-1, 0>>>>

\* get_valid_moves that keeps every in-bounds neighbour, friendly or not.
get_valid_moves_any_neighbour(G, row, col) ==
    LET new == [k \in 1 .. Len(directions) |->
                   <<row + directions[k][1], col + directions[k][2]>>]
    IN  [raised |-> "",
         moves |-> SelectSeq(new, LAMBDA m : InBounds(m[1], m[2]))]

\* A get_valid_moves that tries the steps right and down only.
get_valid_moves_right_down(G, row, col) ==
    LET new == [k \in 1 .. 2 |->
                   <<row + directions[k][1], col + directions[k][2]>>]
        valid(m) ==
            /\ InBounds(m[1], m[2])
            /\ \/ G.grid[m[1]][m[2]] = None
               \/ G.grid[m[1]][m[2]].player_id #
                      G.grid[PyIndex(row)][PyIndex(col)].player_id
    IN  [raised |-> "", moves |-> SelectSeq(new, valid)]

\* Game.get_valid_moves: the exception raised ("" if none) and the list
\* returned.  The cell (row, col) is read only when an in-bounds neighbour is
\* occupied; the read raises IndexError for indices out of range and the
\* player_id access raises AttributeError when the cell is empty.
get_valid_moves(G, row, col) ==
    LET new == [k \in 1 .. Len(directions) |->
                   <<row + directions[k][1], col + directions[k][2]>>]
        occupied(m) == InBounds(m[1], m[2]) /\ G.grid[m[1]][m[2]] # None
        reads == \E k \in 1 .. Len(directions) : occupied(new[k])
        valid(m) ==
            /\ InBounds(m[1], m[2])
            /\ \/ G.grid[m[1]][m[2]] = None
               \/ G.grid[m[1]][m[2]].player_id #
                      G.grid[PyIndex(row)][PyIndex(col)].player_id
    IN  IF reads /\ ~(IndexOk(row) /\ IndexOk(col))
        THEN [raised |-> "IndexError", moves |-> <<>>]
        ELSE IF reads /\ G.grid[PyIndex(row)][PyIndex(col)] = None
        THEN [raised |-> "AttributeError", moves |-> <<>>]
        ELSE [raised |-> "", moves |-> SelectSeq(new, valid)]

\* update_timer that expires only once the countdown is below zero.
update_timer_below_zero(G, dt) ==
    LET T == [G EXCEPT !.turn_timer = G.turn_timer - dt]
    IN  IF T.turn_timer < 0
        THEN [game |-> next_turn(T), expired |-> TRUE]
        ELSE [game |-> T, expired |-> FALSE]

\* update_timer that reports the expiry without passing the turn.
update_timer_no_turn_change(G, dt) ==
    LET T == [G EXCEPT !.turn_timer = G.turn_timer - dt]
    IN  [game |-> T, expired |-> T.turn_timer <= 0]

\* Game.update_timer: the new state and the value returned.
update_timer(G, dt) ==
    LET T == [G EXCEPT !.turn_timer = G.turn_timer - dt]
    IN  IF T.turn_timer <= 0
        THEN [game |-> next_turn(T), expired |-> TRUE]
        ELSE [game |-> T, expired |-> FALSE]

\* A list rotated n places to the left: an outcome of random.shuffle.
Rotate(seq, n) ==
    [i \in 1 .. Len(seq) |-> seq[((i - 1 + n) % Len(seq)) + 1]]

\* --------------------------------------------------------------- AI players
\* get_valid_pieces_with_moves that lists the pieces of every player.
get_valid_pieces_with_moves_any_owner(G, player_id) ==
    LET cells == SelectSeq(RowMajor, LAMBDA rc : G.grid[rc[1]][rc[2]] # None)
        with_moves == [i \in 1 .. Len(cells) |->
                          <<cells[i][1], cells[i][2],
                            G.grid[cells[i][1]][cells[i][2]],
                            get_valid_moves(G, cells[i][1], cells[i][2]).moves>>]
    IN  SelectSeq(with_moves, LAMBDA e : e[4] # <<>>)

\* AIPlayer.get_valid_pieces_with_moves: the (row, col, piece, valid_moves) of
\* the player's pieces that have at least one valid move, in board order.
get_valid_pieces_with_moves(G, player_id) ==
    LET player_pieces == get_player_pieces(G.grid, player_id)
        with_moves == [i \in 1 .. Len(player_pieces) |->
                          <<player_pieces[i][1], player_pieces[i][2],
                            player_pieces[i][3],
                            get_valid_moves(G, player_pieces[i][1],
                                            player_pieces[i][2]).moves>>]
    IN  SelectSeq(with_moves, LAMBDA e : e[4] # <<>>)

\* The (None, None, None, None) that choose_move returns for "no move".
NoMove == <<>>

\* random.choice(seq) when the generator draws d.
Choice(seq, d) == seq[(d % Len(seq)) + 1]

\* RandomAI.choose_move; rnd holds what the random generator draws.
RandomAI_choose_move(G, rnd) ==
    LET valid_pieces ==
            get_valid_pieces_with_moves(G, G.current_player_index + 1)
        chosen == Choice(valid_pieces, rnd.piece)
        to == Choice(chosen[4], rnd.move)
    IN  IF valid_pieces = <<>> THEN NoMove
        ELSE <<chosen[1], chosen[2], to[1], to[2]>>

\* The loop of BasicAI.choose_move over the shuffled pieces, from the i-th
\* on; rnd.risky holds the positions at which random.random() < 0.2.
RECURSIVE BasicAI_scan(_, _, _, _)
BasicAI_scan(G, valid_pieces, i, rnd) ==
    IF i > Len(valid_pieces)
    THEN LET chosen == Choice(valid_pieces, rnd.piece)
             to == Choice(chosen[4], rnd.move)
         IN  <<chosen[1], chosen[2], to[1], to[2]>>
    ELSE LET row == valid_pieces[i][1]
             col == valid_pieces[i][2]
             piece == valid_pieces[i][3]
             valid_moves == valid_pieces[i][4]
             target(m) == G.grid[m[1]][m[2]]
             safe_moves == SelectSeq(valid_moves, LAMBDA m : target(m) = None)
             capturing_moves ==
                 SelectSeq(valid_moves, LAMBDA m :
                     target(m) # None /\ resolve_combat(piece, target(m)) = 1)
             risky_moves ==
                 SelectSeq(valid_moves, LAMBDA m :
                     target(m) # None /\ resolve_combat(piece, target(m)) # 1)
         IN  IF capturing_moves # <<>>
             THEN <<row, col>> \o Choice(capturing_moves, rnd.move)
             ELSE IF safe_moves # <<>>
             THEN <<row, col>> \o Choice(safe_moves, rnd.move)
             ELSE IF risky_moves # <<>> /\ i \in rnd.risky
             THEN <<row, col>> \o Choice(risky_moves, rnd.move)
             ELSE BasicAI_scan(G, valid_pieces, i + 1, rnd)

\* BasicAI.choose_move; rnd.order is the outcome of random.shuffle.
BasicAI_choose_move(G, rnd) ==
    LET valid_pieces ==
            get_valid_pieces_with_moves(G, G.current_player_index + 1)
    IN  IF valid_pieces = <<>> THEN NoMove
        ELSE BasicAI_scan(G, Rotate(valid_pieces, rnd.order), 1, rnd)

\* float('inf'): above every score the evaluations can give.
Infinity == 1000000

\* The candidate moves (row, col, to_row, to_col) in the order of the two
\* nested loops over valid_pieces and their valid_moves, from piece i on.
RECURSIVE candidate_moves(_, _)
candidate_moves(valid_pieces, i) ==
    IF i > Len(valid_pieces) THEN <<>>
    ELSE [k \in 1 .. Len(valid_pieces[i][4]) |->
             <<valid_pieces[i][1], valid_pieces[i][2],
               valid_pieces[i][4][k][1], valid_pieces[i][4][k][2]>>]
         \o candidate_moves(valid_pieces, i + 1)

\* The loop with "if score >= best_score": the last of the best candidates.
RECURSIVE best_move_index_last(_, _, _, _)
best_move_index_last(scores, i, best_score, best_move) ==
    IF i > Len(scores) THEN best_move
    ELSE IF scores[i] >= best_score
    THEN best_move_index_last(scores, i + 1, scores[i], i)
    ELSE best_move_index_last(scores, i + 1, best_score, best_move)

\* The "if score > best_score" loop of choose_move from candidate i on: the
\* index of best_move, 0 while best_move is None.
RECURSIVE best_move_index(_, _, _, _)
best_move_index(scores, i, best_score, best_move) ==
    IF i > Len(scores) THEN best_move
    ELSE IF scores[i] > best_score
    THEN best_move_index(scores, i + 1, scores[i], i)
    ELSE best_move_index(scores, i + 1, best_score, best_move)

\* AdvancedAI.evaluate_threats_and_opportunities.
evaluate_threats_and_opportunities(G, row, col, piece, player_id) ==
    LET new == [k \in 1 .. Len(directions) |->
                   <<row + directions[k][1], col + directions[k][2]>>]
        value(m) ==
            IF ~InBounds(m[1], m[2]) THEN 0
            ELSE LET target == G.grid[m[1]][m[2]]
                 IN  IF target = None \/ target.player_id = player_id THEN 0
                     ELSE IF resolve_combat(piece, target) = 1 THEN 3
                     ELSE IF resolve_combat(piece, target) = -1 THEN -5
                     ELSE 0
    IN  value(new[1]) + value(new[2]) + value(new[3]) + value(new[4])

\* min(type_counts.values()) for a function from piece types to counts.
MinCount(type_counts) ==
    CHOOSE n \in {type_counts[t] : t \in PieceTypes} :
        \A t \in PieceTypes : n <= type_counts[t]

\* type_counts of evaluate_move: the player's pieces per type, the moving
\* piece skipped at its origin and counted again "in its new position".
type_counts(G, from_row, from_col, player_id) ==
    LET moving_piece == G.grid[from_row][from_col]
        my_pieces == get_player_pieces(G.grid, player_id)
    IN  [t \in PieceTypes |->
            Cardinality({i \in 1 .. Len(my_pieces) :
                /\ ~(my_pieces[i][1] = from_row /\ my_pieces[i][2] = from_col)
                /\ my_pieces[i][3].type = t})
            + (IF moving_piece.type = t THEN 1 ELSE 0)]

\* AdvancedAI.evaluate_move.  abs(to_row - 2.5) + abs(to_col - 2.5) is a
\* whole number, computed here on the doubled coordinates.
evaluate_move(G, from_row, from_col, to_row, to_col, player_id) ==
    LET moving_piece == G.grid[from_row][from_col]
        target_piece == G.grid[to_row][to_col]
        result == resolve_combat(moving_piece, target_piece)
        combat == IF target_piece = None THEN 0
                  ELSE IF result = 1 THEN 10
                  ELSE IF result = -1 THEN -15
                  ELSE -5
        center_value ==
            4 - ((Abs(2 * to_row - 5) + Abs(2 * to_col - 5)) \div 2)
    IN  combat + center_value
        + MinCount(type_counts(G, from_row, from_col, player_id)) * 2
        + evaluate_threats_and_opportunities(G, to_row, to_col, moving_piece,
                                             player_id)

\* The scoring loop of AdvancedAI.choose_move: the candidates and the index
\* of best_move among them (0 for None).
AdvancedAI_best(G) ==
    LET player_id == G.current_player_index + 1
        valid_pieces == get_valid_pieces_with_moves(G, player_id)
        candidates == candidate_moves(valid_pieces, 1)
        scores == [i \in 1 .. Len(candidates) |->
                      evaluate_move(G, candidates[i][1], candidates[i][2],
                                    candidates[i][3], candidates[i][4],
                                    player_id)]
    IN  [candidates |-> candidates,
         best_move |-> best_move_index(scores, 1, -Infinity, 0)]

\* An AdvancedAI.choose_move that always ends in the random choice.
AdvancedAI_return_random(G, best, rnd) ==
    IF best.candidates = <<>> THEN NoMove ELSE RandomAI_choose_move(G, rnd)

\* What AdvancedAI.choose_move returns after the scoring loop.
AdvancedAI_return(G, best, rnd) ==
    IF best.candidates = <<>> THEN NoMove
    ELSE IF best.best_move # 0 THEN best.candidates[best.best_move]
    ELSE RandomAI_choose_move(G, rnd)

\* AdvancedAI.choose_move.
AdvancedAI_choose_move(G, rnd) == AdvancedAI_return(G, AdvancedAI_best(G), rnd)

\* MinimaxAI.max_depth.
max_depth == 2

\* None in a cell of a board copy, whose pieces are (type, player_id) pairs.
NoPiece == <<>>

\* A board handed to the search: its rows, and whether the object is the
\* live grid of the game (writes to it then change the game) or detached.
BoardObject(rows, live) == [rows |-> rows, live |-> live]

\* A copy_board that hands out the live grid itself, pieces as pairs.
copy_board_aliased(G) ==
    BoardObject([row \in Rows |-> [col \in Rows |->
                    IF G.grid[row][col] # None
                    THEN <<G.grid[row][col].type, G.grid[row][col].player_id>>
                    ELSE NoPiece]],
                TRUE)

\* MinimaxAI.copy_board: a new list of new rows.
copy_board(G) ==
    BoardObject([row \in Rows |-> [col \in Rows |->
                    IF G.grid[row][col] # None
                    THEN <<G.grid[row][col].type, G.grid[row][col].player_id>>
                    ELSE NoPiece]],
                FALSE)

\* The game after a write to board: changed only if board is the live grid.
Written(G, board) ==
    IF board.live
    THEN [G EXCEPT !.grid = [row \in Rows |-> [col \in Rows |->
             IF board.rows[row][col] = NoPiece THEN None
             ELSE Piece(board.rows[row][col][1], board.rows[row][col][2])]]]
    ELSE G

\* A make_move_on_copy in which a draw removes the moving piece only.
make_move_on_copy_draw_keeps_target(board_copy, from_row, from_col, to_row, to_col) ==
    LET moving_piece == board_copy.rows[from_row][from_col]
        target_piece == board_copy.rows[to_row][to_col]
        put(rows, row, col, piece) == [rows EXCEPT ![row][col] = piece]
        rows ==
            IF \/ target_piece = NoPiece
               \/ (moving_piece[1] = "R" /\ target_piece[1] = "S")
               \/ (moving_piece[1] = "P" /\ target_piece[1] = "R")
               \/ (moving_piece[1] = "S" /\ target_piece[1] = "P")
            THEN put(put(board_copy.rows, to_row, to_col, moving_piece),
                     from_row, from_col, NoPiece)
            ELSE put(board_copy.rows, from_row, from_col, NoPiece)
    IN  BoardObject(rows, board_copy.live)

\* MinimaxAI.make_move_on_copy: the board object after the writes.
make_move_on_copy(board_copy, from_row, from_col, to_row, to_col) ==
    LET moving_piece == board_copy.rows[from_row][from_col]
        target_piece == board_copy.rows[to_row][to_col]
        piece_type == moving_piece[1]
        target_type == target_piece[1]
        put(rows, row, col, piece) == [rows EXCEPT ![row][col] = piece]
        rows ==
            IF target_piece = NoPiece
            THEN put(put(board_copy.rows, to_row, to_col, moving_piece),
                     from_row, from_col, NoPiece)
            ELSE IF piece_type = target_type
            THEN put(put(board_copy.rows, from_row, from_col, NoPiece),
                     to_row, to_col, NoPiece)
            ELSE IF \/ (piece_type = "R" /\ target_type = "S")
                    \/ (piece_type = "P" /\ target_type = "R")
                    \/ (piece_type = "S" /\ target_type = "P")
            THEN put(put(board_copy.rows, to_row, to_col, moving_piece),
                     from_row, from_col, NoPiece)
            ELSE put(board_copy.rows, from_row, from_col, NoPiece)
    IN  BoardObject(rows, board_copy.live)

\* The nested loops of get_possible_moves over row, col and direction: every
\* cell in row-major order with its four steps right, down, left, up.
cell_steps ==
    [i \in 1 .. (Len(RowMajor) * Len(directions)) |->
        LET cell == RowMajor[((i - 1) \div Len(directions)) + 1]
            d == directions[((i - 1) % Len(directions)) + 1]
        IN  <<cell[1], cell[2], cell[1] + d[1], cell[2] + d[2]>>]

\* A get_possible_moves that lists steps to empty cells only.
get_possible_moves_empty_only(board, player_id) ==
    LET possible(m) ==
            /\ board.rows[m[1]][m[2]] # NoPiece
            /\ board.rows[m[1]][m[2]][2] = player_id
            /\ InBounds(m[3], m[4])
            /\ board.rows[m[3]][m[4]] = NoPiece
    IN  SelectSeq(cell_steps, possible)

\* MinimaxAI.get_possible_moves: the moves of player_id on a board copy, by
\* cell in row-major order and by direction right, down, left, up.
get_possible_moves(board, player_id) ==
    LET possible(m) ==
            /\ board.rows[m[1]][m[2]] # NoPiece
            /\ board.rows[m[1]][m[2]][2] = player_id
            /\ InBounds(m[3], m[4])
            /\ \/ board.rows[m[3]][m[4]] = NoPiece
               \/ board.rows[m[3]][m[4]][2] # player_id
    IN  SelectSeq(cell_steps, possible)

\* An evaluate_board whose material term subtracts the pieces of one
\* opponent only, the other player with the lowest id.
evaluate_board_one_opponent(board, player_id) ==
    LET at(rc) == board.rows[rc[1]][rc[2]]
        pieces_on == {rc \in Rows \X Rows : at(rc) # NoPiece}
        mine == {rc \in pieces_on : at(rc)[2] = player_id}
        my_pieces == [t \in PieceTypes |->
                         Cardinality({rc \in mine : at(rc)[1] = t})]
        opponent == IF player_id = 1 THEN 2 ELSE 1
        opponent_total == Cardinality({rc \in pieces_on : at(rc)[2] = opponent})
        adjacent(rc) == {m \in pieces_on \ mine :
                            Abs(m[1] - rc[1]) + Abs(m[2] - rc[2]) = 1}
        beats(t1, t2) == <<t1, t2>> \in {<<"R", "S">>, <<"P", "R">>, <<"S", "P">>}
        favourable == Cardinality({x \in mine \X pieces_on :
                          x[2] \in adjacent(x[1]) /\ beats(at(x[1])[1], at(x[2])[1])})
        unfavourable == Cardinality({x \in mine \X pieces_on :
                          x[2] \in adjacent(x[1]) /\ beats(at(x[2])[1], at(x[1])[1])})
    IN  (Cardinality(mine) - opponent_total) * 10
        + MinCount(my_pieces) * 5
        + 3 * Cardinality({<<2, 2>>, <<2, 3>>, <<3, 2>>, <<3, 3>>} \cap mine)
        + 2 * favourable - 2 * unfavourable

\* MinimaxAI.evaluate_board.
evaluate_board(board, player_id) ==
    LET at(rc) == board.rows[rc[1]][rc[2]]
        pieces_on == {rc \in Rows \X Rows : at(rc) # NoPiece}
        mine == {rc \in pieces_on : at(rc)[2] = player_id}
        my_pieces == [t \in PieceTypes |->
                         Cardinality({rc \in mine : at(rc)[1] = t})]
        my_total == Cardinality(mine)
        opponent_total == Cardinality(pieces_on \ mine)
        center_positions == {<<2, 2>>, <<2, 3>>, <<3, 2>>, <<3, 3>>}
        matchup(rc, k) ==
            LET m == <<rc[1] + directions[k][1], rc[2] + directions[k][2]>>
            IN  IF ~InBounds(m[1], m[2]) THEN 0
                ELSE IF at(m) = NoPiece THEN 0
                ELSE IF at(m)[2] = player_id THEN 0
                ELSE IF \/ (at(rc)[1] = "R" /\ at(m)[1] = "S")
                        \/ (at(rc)[1] = "P" /\ at(m)[1] = "R")
                        \/ (at(rc)[1] = "S" /\ at(m)[1] = "P")
                THEN 2
                ELSE IF \/ (at(rc)[1] = "R" /\ at(m)[1] = "P")
                        \/ (at(rc)[1] = "P" /\ at(m)[1] = "S")
                        \/ (at(rc)[1] = "S" /\ at(m)[1] = "R")
                THEN -2
                ELSE 0
        favourable == Cardinality({x \in mine \X (1 .. Len(directions)) :
                                      matchup(x[1], x[2]) = 2})
        unfavourable == Cardinality({x \in mine \X (1 .. Len(directions)) :
                                        matchup(x[1], x[2]) = -2})
    IN  (my_total - opponent_total) * 10
        + MinCount(my_pieces) * 5
        + 3 * Cardinality(center_positions \cap mine)
        + 2 * favourable - 2 * unfavourable

Max(x, y) == IF x >= y THEN x ELSE y

Min(x, y) == IF x <= y THEN x ELSE y

\* MinimaxAI.minimax and its two loops over the possible moves, from the
\* i-th move on; the loops stop at the first move after which beta <= alpha.
RECURSIVE minimax(_, _, _, _, _, _, _)
RECURSIVE minimax_max_loop(_, _, _, _, _, _, _, _, _)
RECURSIVE minimax_min_loop(_, _, _, _, _, _, _, _, _)
minimax_max_loop(G, board, depth, player_id, moves, i, max_eval, alpha, beta) ==
    IF i > Len(moves) THEN max_eval
    ELSE LET board_copy ==
                 make_move_on_copy(BoardObject(board.rows, FALSE), moves[i][1],
                                   moves[i][2], moves[i][3], moves[i][4])
             eval == minimax(G, board_copy, depth - 1, FALSE, player_id,
                             alpha, beta)
         IN  IF beta <= Max(alpha, eval)
             THEN Max(max_eval, eval)
             ELSE minimax_max_loop(G, board, depth, player_id, moves, i + 1,
                                   Max(max_eval, eval), Max(alpha, eval), beta)

\* A minimizing loop that stops as soon as beta is within 3 of alpha.
RECURSIVE minimax_min_loop_wide_cut(_, _, _, _, _, _, _, _, _)
minimax_min_loop_wide_cut(G, board, depth, player_id, moves, i, min_eval, alpha, beta) ==
    IF i > Len(moves) THEN min_eval
    ELSE LET board_copy ==
                 make_move_on_copy(BoardObject(board.rows, FALSE), moves[i][1],
                                   moves[i][2], moves[i][3], moves[i][4])
             eval == minimax(G, board_copy, depth - 1, TRUE, player_id,
                             alpha, beta)
         IN  IF Min(beta, eval) <= alpha + 3
             THEN Min(min_eval, eval)
             ELSE minimax_min_loop_wide_cut(G, board, depth, player_id, moves,
                                            i + 1, Min(min_eval, eval), alpha,
                                            Min(beta, eval))

minimax_min_loop(G, board, depth, player_id, moves, i, min_eval, alpha, beta) ==
    IF i > Len(moves) THEN min_eval
    ELSE LET board_copy ==
                 make_move_on_copy(BoardObject(board.rows, FALSE), moves[i][1],
                                   moves[i][2], moves[i][3], moves[i][4])
             eval == minimax(G, board_copy, depth - 1, TRUE, player_id,
                             alpha, beta)
         IN  IF Min(beta, eval) <= alpha
             THEN Min(min_eval, eval)
             ELSE minimax_min_loop(G, board, depth, player_id, moves, i + 1,
                                   Min(min_eval, eval), alpha, Min(beta, eval))

\* A minimax that falls back on the static evaluation at a node without
\* moves.
minimax_static_without_moves(G, board, depth, is_maximizing, player_id, alpha, beta) ==
    LET next_player_index ==
            (G.current_player_index + (IF is_maximizing THEN 0 ELSE 1))
                % G.num_players
        possible_moves ==
            get_possible_moves(board, IF is_maximizing THEN player_id
                                      ELSE next_player_index + 1)
    IN  IF depth = 0 \/ possible_moves = <<>>
        THEN evaluate_board(board, player_id)
        ELSE IF is_maximizing
        THEN minimax_max_loop(G, board, depth, player_id, possible_moves, 1,
                              -Infinity, alpha, beta)
        ELSE minimax_min_loop(G, board, depth, player_id, possible_moves, 1,
                              Infinity, alpha, beta)

minimax(G, board, depth, is_maximizing, player_id, alpha, beta) ==
    LET next_player_index ==
            (G.current_player_index + (IF is_maximizing THEN 0 ELSE 1))
                % G.num_players
        next_player_id == next_player_index + 1
    IN  IF depth = 0 THEN evaluate_board(board, player_id)
        ELSE IF is_maximizing
        THEN minimax_max_loop(G, board, depth, player_id,
                              get_possible_moves(board, player_id), 1,
                              -Infinity, alpha, beta)
        ELSE minimax_min_loop(G, board, depth, player_id,
                              get_possible_moves(board, next_player_id), 1,
                              Infinity, alpha, beta)

\* A choose_move loop that scores a candidate by the static evaluation of
\* the board right after it, the opponent's replies not searched.
RECURSIVE MinimaxAI_scores_one_ply(_, _, _, _)
MinimaxAI_scores_one_ply(G, candidates, i, player_id) ==
    IF i > Len(candidates) THEN [scores |-> <<>>, game |-> G]
    ELSE LET board_copy ==
                 make_move_on_copy(copy_board(G), candidates[i][1],
                                   candidates[i][2], candidates[i][3],
                                   candidates[i][4])
             G1 == Written(G, board_copy)
             score == minimax(G1, board_copy, 0, FALSE, player_id,
                              -Infinity, Infinity)
             rest == MinimaxAI_scores_one_ply(G1, candidates, i + 1, player_id)
         IN  [scores |-> <<score>> \o rest.scores, game |-> rest.game]

\* The loop of MinimaxAI.choose_move from candidate i on: the scores of the
\* candidates and the game as the loop leaves it.
RECURSIVE MinimaxAI_scores(_, _, _, _)
MinimaxAI_scores(G, candidates, i, player_id) ==
    IF i > Len(candidates) THEN [scores |-> <<>>, game |-> G]
    ELSE LET board_copy ==
                 make_move_on_copy(copy_board(G), candidates[i][1],
                                   candidates[i][2], candidates[i][3],
                                   candidates[i][4])
             G1 == Written(G, board_copy)
             score == minimax(G1, board_copy, max_depth - 1, FALSE, player_id,
                              -Infinity, Infinity)
             rest == MinimaxAI_scores(G1, candidates, i + 1, player_id)
         IN  [scores |-> <<score>> \o rest.scores, game |-> rest.game]

\* The search loop of MinimaxAI.choose_move: the candidates, the index of
\* best_move among them (0 for None) and the game as the loop leaves it.
MinimaxAI_searched(G) ==
    LET player_id == G.current_player_index + 1
        valid_pieces == get_valid_pieces_with_moves(G, player_id)
        candidates == candidate_moves(valid_pieces, 1)
        searched == MinimaxAI_scores(G, candidates, 1, player_id)
    IN  [candidates |-> candidates,
         best_move |-> best_move_index(searched.scores, 1, -Infinity, 0),
         game |-> searched.game]

\* What MinimaxAI.choose_move returns after the search loop.
MinimaxAI_return(G, searched, rnd) ==
    IF searched.candidates = <<>> THEN NoMove
    ELSE IF searched.best_move # 0
    THEN searched.candidates[searched.best_move]
    ELSE RandomAI_choose_move(G, rnd)

\* MinimaxAI.choose_move.
MinimaxAI_choose_move(G, rnd) == MinimaxAI_return(G, MinimaxAI_searched(G), rnd)

\* GameGUI.create_ai_player: the four strategies.
Strategies == {"RandomAI", "BasicAI", "AdvancedAI", "MinimaxAI"}

\* The outcomes of the random generator explored for a call of choose_move
\* in state G: every index random.choice can draw for a piece and for a
\* move, every rotation of the pieces as random.shuffle, and
\* random.random() < 0.2 holding at every piece or at none.
RandomDraws(G) ==
    LET k == Len(get_valid_pieces_with_moves(G, G.current_player_index + 1))
        n == IF k = 0 THEN 1 ELSE k
    IN  [piece : 0 .. (n - 1),
         move : 0 .. (Len(directions) - 1),
         order : 0 .. (n - 1),
         risky : {{}, 1 .. n}]

\* Everything choose_move of a strategy can do in state G: the move returned
\* and the game after the call, for every outcome of the random generator.
choose_move(strategy, G) ==
    IF strategy = "RandomAI"
    THEN {[move |-> RandomAI_choose_move(G, rnd), game |-> G] :
             rnd \in RandomDraws(G)}
    ELSE IF strategy = "BasicAI"
    THEN {[move |-> BasicAI_choose_move(G, rnd), game |-> G] :
             rnd \in RandomDraws(G)}
    ELSE IF strategy = "AdvancedAI"
    THEN LET best == AdvancedAI_best(G)
         IN  {[move |-> AdvancedAI_return(G, best, rnd), game |-> G] :
                 rnd \in RandomDraws(G)}
    ELSE LET searched == MinimaxAI_searched(G)
         IN  {[move |-> MinimaxAI_return(G, searched, rnd),
               game |-> searched.game] : rnd \in RandomDraws(G)}


\* The j-th explored outcome of the random calls setup_board makes for one
\* player: a permutation of the area and an index within range per draw.
RandomOutcome(area, j) ==
    [area |-> Rotate(area, 5 * j),
     picks |-> [k \in 1 .. (4 * 3) |->
                  (j * k) % (Len(piece_types) * PIECE_COUNT + 1 - k)]]

RandomOutcomes(n) ==
    {[p \in PlayerIds(n) |-> RandomOutcome(starting_areas(n)[p], js[p])] :
        js \in [PlayerIds(n) -> 0 .. (NumShuffles - 1)]}

\* Game(num_players) followed by setup_board(), for every explored outcome
\* of its random calls.
NewGames ==
    [n \in {2, 3} |->
        [rnd \in RandomOutcomes(n) |-> setup_board(Game_new(n).game, rnd)]]

\* --------------------------------------------------------------------- GUI
\* No GameGUI object: the game is driven through the Game object directly.
NoGui == [game_state |-> "none"]

\* selected_piece = None.
NoSelection == <<>>

\* GameGUI.update_cell_size for a screen of the given size.
update_cell_size(width, height) ==
    Min((width - 2 * BOARD_MARGIN) \div BOARD_SIZE,
        (height - 2 * BOARD_MARGIN) \div BOARD_SIZE)

\* The GameGUI object after start_game on a screen of the given size:
\* mode is "human" (ai_mode False), "ai" (ai_mode True) or "ai_vs_ai"; pc is
\* where the program stands: "run" in the main loop between two handlers,
\* "sleep" inside play_ai_turn at time.sleep.
GameGUI(screen, mode, ai_difficulty) ==
    [screen |-> screen,
     cell_size |-> update_cell_size(screen[1], screen[2]),
     selected_piece |-> NoSelection,
     valid_moves |-> <<>>,
     game_state |-> "game",
     mode |-> mode,
     ai_difficulty |-> ai_difficulty,
     pc |-> "run"]

\* The result of a GUI handler: the game, the GameGUI object, the exception
\* that left the handler ("" if none), whether play_turn was called and
\* succeeded, and its combat type.
Handled(G, U, raised, success, combat_type) ==
    [game |-> G, gui |-> U, raised |-> raised, success |-> success,
     combat_type |-> combat_type]

\* GameGUI.handle_board_click for a click at pixel mouse_pos = (x, y).  The
\* bounds test admits both edges of the board; grid[row][col] is read when no
\* piece is selected and raises IndexError for an index of BOARD_SIZE.
handle_board_click(G, U, mouse_pos) ==
    LET board_x == (U.screen[1] - BOARD_SIZE * U.cell_size) \div 2
        board_y == (U.screen[2] - BOARD_SIZE * U.cell_size) \div 2
        col == (mouse_pos[1] - board_x) \div U.cell_size
        row == (mouse_pos[2] - board_y) \div U.cell_size
        cleared == [U EXCEPT !.selected_piece = NoSelection,
                             !.valid_moves = <<>>]
    IN  IF ~(/\ board_x <= mouse_pos[1]
             /\ mouse_pos[1] <= board_x + BOARD_SIZE * U.cell_size
             /\ board_y <= mouse_pos[2]
             /\ mouse_pos[2] <= board_y + BOARD_SIZE * U.cell_size)
        THEN Handled(G, U, "", FALSE, "")
        ELSE IF U.selected_piece = NoSelection
        THEN IF ~(IndexOk(row) /\ IndexOk(col))
             THEN Handled(G, U, "IndexError", FALSE, "")
             ELSE IF /\ G.grid[row][col] # None
                     /\ G.grid[row][col].player_id = G.current_player_index + 1
             THEN Handled(G, [U EXCEPT !.selected_piece = <<row, col>>,
                                       !.valid_moves =
                                           get_valid_moves(G, row, col).moves],
                          "", FALSE, "")
             ELSE Handled(G, U, "", FALSE, "")
        ELSE IF \E i \in 1 .. Len(U.valid_moves) : U.valid_moves[i] = <<row, col>>
        THEN LET r == play_turn(G, U.selected_piece[1], U.selected_piece[2],
                                row, col)
                 checked == check_game_over(r.game).game
             IN  IF r.success
                 THEN Handled(checked,
                              [cleared EXCEPT !.game_state =
                                  IF checked.game_over THEN "game_over"
                                  ELSE U.game_state],
                              "", TRUE, r.combat_type)
                 ELSE Handled(r.game, cleared, "", FALSE, "")
        ELSE Handled(G, cleared, "", FALSE, "")

\* GameGUI.play_ai_turn up to time.sleep, chosen being what the AI player's
\* choose_move returned and left of the game: with no move the turn is
\* passed and the method returns; otherwise the move is shown as the
\* selection and the method waits.
play_ai_turn_shown(G, U, chosen) ==
    IF chosen.move = NoMove
    THEN Handled(next_turn(chosen.game), U, "", FALSE, "")
    ELSE Handled(chosen.game,
                 [U EXCEPT !.selected_piece = <<chosen.move[1], chosen.move[2]>>,
                           !.valid_moves = << <<chosen.move[3], chosen.move[4]>> >>,
                           !.pc = "sleep"],
                 "", FALSE, "")

\* A play_ai_turn that leaves game_state alone after the move.
play_ai_turn_played_no_check(G, U) ==
    LET r == play_turn(G, U.selected_piece[1], U.selected_piece[2],
                       U.valid_moves[1][1], U.valid_moves[1][2])
    IN  Handled(r.game,
                [U EXCEPT !.selected_piece = NoSelection,
                          !.valid_moves = <<>>,
                          !.pc = "run"],
                "", r.success, r.combat_type)

\* GameGUI.play_ai_turn after time.sleep: the move shown is played, the
\* selection reset, check_game_over called and game_state set.
play_ai_turn_played(G, U) ==
    LET r == play_turn(G, U.selected_piece[1], U.selected_piece[2],
                       U.valid_moves[1][1], U.valid_moves[1][2])
        checked == check_game_over(r.game).game
    IN  Handled(checked,
                [U EXCEPT !.selected_piece = NoSelection,
                          !.valid_moves = <<>>,
                          !.game_state =
                              IF checked.game_over THEN "game_over"
                              ELSE U.game_state,
                          !.pc = "run"],
                "", r.success, r.combat_type)

\* GameGUI.handle_resize.
handle_resize(U, new_size) ==
    [U EXCEPT !.screen = new_size,
              !.cell_size = update_cell_size(new_size[1], new_size[2])]

\* The KEYDOWN branch of GameGUI.run: Escape leaves a game for the menu,
\* Space leaves the game-over screen for the menu.
key_down(U, key) ==
    IF U.game_state = "game" /\ key = "K_ESCAPE"
    THEN [U EXCEPT !.game_state = "menu"]
    ELSE IF U.game_state = "game_over" /\ key = "K_SPACE"
    THEN [U EXCEPT !.game_state = "menu"]
    ELSE U

\* GameGUI.start_game: a new game set up with the random outcomes rnd.
start_game(U, num_players, ai_mode, rnd) ==
    Handled(NewGames[num_players][rnd],
            [U EXCEPT !.selected_piece = NoSelection,
                      !.valid_moves = <<>>,
                      !.game_state = "game",
                      !.mode = IF ai_mode THEN "ai" ELSE "human"],
            "", FALSE, "")

\* GameGUI.start_ai_vs_ai_game.
start_ai_vs_ai_game(U, rnd) ==
    LET started == start_game(U, 2, TRUE, rnd)
    IN  Handled(started.game, [started.gui EXCEPT !.mode = "ai_vs_ai"],
                "", FALSE, "")

\* The menu buttons of handle_menu_click, from the top: width 400 and
\* height 50, 20 apart, the first at y = 340.
MenuButtons == 0 .. 7

\* pygame.Rect.collidepoint for button i: the right and bottom edge are
\* outside the rectangle.
OnButton(U, i, mouse_pos) ==
    LET left == (U.screen[1] - 400) \div 2
        top == 340 + i * (50 + 20)
    IN  /\ left <= mouse_pos[1] /\ mouse_pos[1] < left + 400
        /\ top <= mouse_pos[2] /\ mouse_pos[2] < top + 50

\* GameGUI.handle_menu_click: the button under the click starts a game for
\* 2 or 3 players, against the AI of a difficulty, between two AIs, or
\* quits (sys.exit raises SystemExit).  rnd are the outcomes of the random
\* calls of setup_board for the players of the game started.
handle_menu_click(G, U, mouse_pos, rnd) ==
    LET hit == {i \in MenuButtons : OnButton(U, i, mouse_pos)}
        i == CHOOSE b \in hit : TRUE
        versus(ai_difficulty) ==
            LET started == start_game(U, 2, TRUE, rnd)
            IN  Handled(started.game,
                        [started.gui EXCEPT !.ai_difficulty = ai_difficulty],
                        "", FALSE, "")
    IN  IF hit = {} THEN Handled(G, U, "", FALSE, "")
        ELSE IF i = 0 THEN start_game(U, 2, FALSE, rnd)
        ELSE IF i = 1 THEN start_game(U, 3, FALSE, rnd)
        ELSE IF i = 2 THEN versus("RandomAI")
        ELSE IF i = 3 THEN versus("BasicAI")
        ELSE IF i = 4 THEN versus("AdvancedAI")
        ELSE IF i = 5 THEN versus("MinimaxAI")
        ELSE IF i = 6 THEN start_ai_vs_ai_game(U, rnd)
        ELSE Handled(G, U, "SystemExit", FALSE, "")

\* ------------------------------------------------------------ state machine
VARIABLES
    grid,                  \* Game.board.grid
    pieces,                \* Player.pieces of each player (unplaced pieces)
    num_players,           \* Game.num_players
    current_player_index,  \* Game.current_player_index
    game_over,             \* Game.game_over
    winner,                \* Game.winner (a player id, NoWinner for None)
    turn_timer,            \* Game.turn_timer
    is_setup,              \* setup_board has been called (GameGUI.start_game)
    calls,                 \* engine calls made since setup
    ret,                   \* what the last call returned
    prev,                  \* the Game object as it was before the last call
    gui                    \* the GameGUI object around the game (NoGui: none)

vars == <<grid, pieces, num_players, current_player_index, game_over, winner,
          turn_timer, is_setup, calls, ret, prev, gui>>

\* The Game object.
Self ==
    [grid |-> grid,
     num_players |-> num_players,
     pieces |-> pieces,
     current_player_index |-> current_player_index,
     game_over |-> game_over,
     winner |-> winner,
     turn_timer |-> turn_timer]

IsGame(G) ==
    /\ grid = G.grid
    /\ num_players = G.num_players
    /\ pieces = G.pieces
    /\ current_player_index = G.current_player_index
    /\ game_over = G.game_over
    /\ winner = G.winner
    /\ turn_timer = G.turn_timer

GameBecomes(G) ==
    /\ grid' = G.grid
    /\ num_players' = G.num_players
    /\ pieces' = G.pieces
    /\ current_player_index' = G.current_player_index
    /\ game_over' = G.game_over
    /\ winner' = G.winner
    /\ turn_timer' = G.turn_timer
    /\ prev' = Self

\* The game becomes G in a call made on the Game object directly.
Becomes(G) == GameBecomes(G) /\ UNCHANGED gui

Returned(op, value, combat_type, raised) ==
    [op |-> op, value |-> value, combat_type |-> combat_type, raised |-> raised]

\* ---- inputs
\* Row and column arguments: the board, one step outside it on either side,
\* and one value outside the range of Python's negative indexing.
ArgRows == {-(BOARD_SIZE + 1)} \cup (-1 .. BOARD_SIZE)

\* Sources tried whatever the board holds: corners and centre cells, and
\* positions off the board on every side.
ProbeSources ==
    {<<0, 0>>, <<2, 2>>, <<3, 3>>, <<5, 5>>,
     <<-1, -1>>, <<6, 0>>, <<0, 6>>, <<6, 6>>, <<-7, 0>>, <<0, -7>>}

\* Every pair of indices that reads an occupied cell of the grid, negative
\* indices included.
OccupiedSources(G) ==
    {s \in ArgRows \X ArgRows :
        /\ -BOARD_SIZE <= s[1] /\ s[1] < BOARD_SIZE
        /\ -BOARD_SIZE <= s[2] /\ s[2] < BOARD_SIZE
        /\ G.grid[(s[1] + BOARD_SIZE) % BOARD_SIZE]
                 [(s[2] + BOARD_SIZE) % BOARD_SIZE] # None}

\* Destination offsets: the four steps of get_valid_moves, no step and a
\* diagonal step.
Deltas == {<<0, 1>>, <<1, 0>>, <<0, -1>>, <<-1, 0>>, <<0, 0>>, <<1, 1>>}

\* The arguments (from_row, from_col, to_row, to_col) explored in state G:
\* every offset from every occupied source, one step right from every probe.
MoveInputs(G) ==
    {<<s[1], s[2], s[1] + d[1], s[2] + d[2]>> : s \in OccupiedSources(G), d \in Deltas}
    \cup {<<s[1], s[2], s[1], s[2] + 1>> : s \in ProbeSources}

\* Time deltas handed to update_timer, in seconds.
Dts == {6, TURN_TIME}

\* Numbers of players handed to the constructor.
NumPlayersArgs == -1 .. 5

\* ---- actions
Init ==
    /\ \E n \in NumPlayersArgs :
          Game_new(n).raised = "" /\ IsGame(Game_new(n).game)
    /\ is_setup = FALSE
    /\ calls = 0
    /\ ret = Returned("Game", FALSE, "", "")
    /\ prev = Self
    /\ gui = NoGui

SetupBoard ==
    /\ ~is_setup
    /\ \E rnd \in RandomOutcomes(num_players) : Becomes(setup_board(Self, rnd))
    /\ is_setup' = TRUE
    /\ ret' = Returned("setup_board", FALSE, "", "")
    /\ UNCHANGED calls

PlayTurn(max) ==
    /\ is_setup /\ calls < max
    /\ \E a \in MoveInputs(Self) :
          LET r == play_turn(Self, a[1], a[2], a[3], a[4])
          IN  /\ Becomes(r.game)
              /\ ret' = Returned("play_turn", r.success, r.combat_type, r.raised)
    /\ calls' = calls + 1
    /\ UNCHANGED is_setup

UpdateTimer(max) ==
    /\ is_setup /\ calls < max
    /\ \E dt \in Dts :
          LET r == update_timer(Self, dt)
          IN  /\ Becomes(r.game)
              /\ ret' = Returned("update_timer", r.expired, "", "")
    /\ calls' = calls + 1
    /\ UNCHANGED is_setup

NextTurn(max) ==
    /\ is_setup /\ calls < max
    /\ Becomes(next_turn(Self))
    /\ ret' = Returned("next_turn", FALSE, "", "")
    /\ calls' = calls + 1
    /\ UNCHANGED is_setup

CheckGameOver(max) ==
    /\ is_setup /\ calls < max
    /\ LET r == check_game_over(Self)
       IN  /\ Becomes(r.game)
           /\ ret' = Returned("check_game_over", r.result, "", "")
    /\ calls' = calls + 1
    /\ UNCHANGED is_setup

Next ==
    \/ SetupBoard
    \/ PlayTurn(MaxCalls)
    \/ UpdateTimer(MaxCalls)
    \/ NextTurn(MaxCalls)
    \/ CheckGameOver(MaxCalls)

\* A new game, set up and played for MaxCalls calls.
Spec == Init /\ [][Next]_vars

\* ---- a game in progress
\* Cells that still hold pieces in the explored positions of a game in
\* progress: three mutually reachable cells in the middle of the board.
MidCells == {<<2, 2>>, <<2, 3>>, <<3, 2>>}

\* Player.pieces after setup_board: empty with 2 players; with 3 players the
\* 8-cell areas leave 4 pieces unplaced.
MidPieces(n, p) ==
    IF n = 2 THEN <<>>
    ELSE <<Piece("R", p), Piece("P", p), Piece("S", p), Piece("S", p)>>

GridWith(cells, at) ==
    [r \in Rows |-> [c \in Rows |->
        IF <<r, c>> \in cells THEN at[<<r, c>>] ELSE None]]

\* Positions right after an accepted move of a game in progress: at least two
\* players still have pieces, the player to move is one of them, the timer
\* has just been reset.
MidGames ==
    {[grid |-> GridWith(cells, at),
      num_players |-> n,
      pieces |-> [p \in PlayerIds(n) |-> MidPieces(n, p)],
      current_player_index |-> i,
      game_over |-> FALSE,
      winner |-> NoWinner,
      turn_timer |-> TURN_TIME] :
        n \in {2, 3}, cells \in SUBSET MidCells, i \in 0 .. 2,
        at \in [MidCells -> [type : PieceTypes, player_id : 1 .. 3]]}

IsMidGame(G) ==
    LET owners == {p \in PlayerIds(G.num_players) :
                      get_player_pieces(G.grid, p) # <<>>}
        on_board == {rc \in Rows \X Rows : G.grid[rc[1]][rc[2]] # None}
    IN  /\ \A rc \in on_board :
              G.grid[rc[1]][rc[2]].player_id \in PlayerIds(G.num_players)
        /\ Cardinality(on_board) <= MaxMidPieces
        /\ Cardinality(owners) >= 2
        /\ (G.current_player_index + 1) \in owners

InitMid ==
    /\ \E G \in MidGames : IsMidGame(G) /\ IsGame(G)
    /\ is_setup = TRUE
    /\ calls = 0
    /\ ret = Returned("play_turn", TRUE, "", "")
    /\ prev = Self
    /\ gui = NoGui

NextMid ==
    \/ PlayTurn(MaxMidCalls)
    \/ UpdateTimer(MaxMidCalls)
    \/ NextTurn(MaxMidCalls)
    \/ CheckGameOver(MaxMidCalls)

\* A game in progress, played for MaxMidCalls further calls.
SpecMid == InitMid /\ [][NextMid]_vars

\* ---- AI turns
\* The screen of the GameGUI object around the games the AI players play.
AiScreen == <<1000, 800>>

\* GameGUI.play_ai_turn up to time.sleep, ai_player being a player of any
\* of the four strategies: with no move the turn is passed and the call is
\* over, otherwise the chosen move is shown and the program waits.  The main
\* loop calls play_ai_turn only while the game is not over.
AiChoose(max) ==
    /\ is_setup /\ calls < max /\ ~game_over
    /\ gui.pc = "run"
    /\ \E strategy \in Strategies : \E chosen \in choose_move(strategy, Self) :
          LET h == play_ai_turn_shown(Self, gui, chosen)
          IN  /\ GameBecomes(h.game)
              /\ gui' = h.gui
              /\ ret' = Returned(IF h.gui.pc = "sleep" THEN "choose_move"
                                 ELSE "play_ai_turn", FALSE, "", "")
    /\ calls' = calls + 1
    /\ UNCHANGED is_setup

\* GameGUI.play_ai_turn from the return of time.sleep on: the move shown is
\* played and check_game_over called.
AiPlay ==
    /\ gui.pc = "sleep"
    /\ LET h == play_ai_turn_played(Self, gui)
       IN  /\ GameBecomes(h.game)
           /\ gui' = h.gui
           /\ ret' = Returned("play_ai_turn", h.success, h.combat_type,
                              h.raised)
    /\ UNCHANGED <<is_setup, calls>>

\* GameGUI.play_ai_turn, in its two steps.
PlayAiTurn(max) == AiChoose(max) \/ AiPlay

\* Positions in which the AI players are explored: player 1 to move with a
\* piece on (2, 2), an enemy piece next to it on (2, 3), and (3, 2) empty or
\* holding a Scissors of player 1 or a Rock of the enemy.
AiGames ==
    {[grid |-> GridWith({<<2, 2>>, <<2, 3>>, <<3, 2>>},
                        [rc \in MidCells |->
                            IF rc = <<2, 2>> THEN Piece(t1, 1)
                            ELSE IF rc = <<2, 3>> THEN Piece(t2, e)
                            ELSE third[e]]),
      num_players |-> n,
      pieces |-> [p \in PlayerIds(n) |-> MidPieces(n, p)],
      current_player_index |-> 0,
      game_over |-> FALSE,
      winner |-> NoWinner,
      turn_timer |-> TURN_TIME] :
        n \in {2, 3}, e \in 2 .. 3, t1 \in PieceTypes, t2 \in PieceTypes,
        third \in {[x \in 2 .. 3 |-> None], [x \in 2 .. 3 |-> Piece("S", 1)],
                   [x \in 2 .. 3 |-> Piece("R", x)]}}

InitAI ==
    /\ \E G \in AiGames :
          /\ \A rc \in MidCells :
                G.grid[rc[1]][rc[2]].player_id <= G.num_players
          /\ IsGame(G)
    /\ is_setup = TRUE
    /\ calls = 0
    /\ ret = Returned("play_turn", TRUE, "", "")
    /\ prev = Self
    /\ gui = GameGUI(AiScreen, "ai", "BasicAI")

NextAI == PlayAiTurn(MaxAiCalls)

\* A game in progress in which AI players make MaxAiCalls further turns.
SpecAI == InitAI /\ [][NextAI]_vars

\* A call of MinimaxAI.minimax on a snapshot of the live board with the
\* window (-inf, +inf), for a depth up to max_depth, either kind of node and
\* any player id; the game is left as it is and the value is kept in ret.
RunMinimax ==
    /\ is_setup /\ ret.op # "minimax" /\ gui.pc = "run"
    /\ \E depth \in 0 .. max_depth : \E is_maximizing \in BOOLEAN :
          \E player_id \in PlayerIds(num_players) :
              ret' = [op |-> "minimax",
                      value |-> minimax(Self, copy_board(Self), depth,
                                        is_maximizing, player_id,
                                        -Infinity, Infinity),
                      depth |-> depth,
                      is_maximizing |-> is_maximizing,
                      player_id |-> player_id]
    /\ Becomes(Self)
    /\ UNCHANGED <<is_setup, calls>>

NextSearch == (ret.op # "minimax" /\ PlayAiTurn(MaxAiCalls)) \/ RunMinimax

\* A game in progress in which AI players make MaxAiCalls further turns and
\* the position then met is searched by minimax.
SpecSearch == InitAI /\ [][NextSearch]_vars

\* Screen sizes of the window the GUI runs in, as (width, height).
ScreenSizes == {<<1000, 800>>, <<700, 900>>}

\* The left and top edge of the board on the screen of GameGUI object U.
BoardOrigin(U) ==
    <<(U.screen[1] - BOARD_SIZE * U.cell_size) \div 2,
      (U.screen[2] - BOARD_SIZE * U.cell_size) \div 2>>

\* The pixel at the centre of cell (row, col).
CellCentre(U, row, col) ==
    <<BoardOrigin(U)[1] + col * U.cell_size + U.cell_size \div 2,
      BoardOrigin(U)[2] + row * U.cell_size + U.cell_size \div 2>>

\* Cells clicked at their centre.
ClickCells == {<<2, 2>>, <<2, 3>>, <<3, 2>>, <<5, 5>>}

\* Mouse positions of the clicks explored: the centres of the cells above,
\* the last pixel inside the board, a pixel exactly on the right edge and one
\* exactly on the bottom edge of the board, and a pixel just outside on
\* either side.
ClickPositions(U) ==
    LET far == <<BoardOrigin(U)[1] + BOARD_SIZE * U.cell_size,
                 BoardOrigin(U)[2] + BOARD_SIZE * U.cell_size>>
        mid == CellCentre(U, 2, 2)
    IN  {CellCentre(U, rc[1], rc[2]) : rc \in ClickCells}
        \cup {<<far[1] - 1, far[2] - 1>>,
              <<far[1], mid[2]>>, <<mid[1], far[2]>>,
              <<far[1] + 1, mid[2]>>, <<BoardOrigin(U)[1] - 1, mid[2]>>}

\* The AI player play_ai_turn uses: in an AI-vs-AI game "hard" for player 1
\* and "medium" for player 2, otherwise the one of ai_difficulty.
AiStrategy(G, U) ==
    IF U.mode = "ai_vs_ai"
    THEN (IF G.current_player_index + 1 = 1 THEN "AdvancedAI" ELSE "BasicAI")
    ELSE U.ai_difficulty

\* The difficulties of the games against the AI that are in progress at
\* the start; the menu starts games of every difficulty.
InitDifficulties == {"BasicAI", "MinimaxAI"}

\* A game in progress shown by the GUI, nothing selected: a piece of
\* player 1, to move, next to a piece of another player.
InitGUI ==
    /\ \E G \in AiGames :
          /\ \A rc \in MidCells :
                G.grid[rc[1]][rc[2]].player_id <= G.num_players
          /\ G.grid[3][2] = None
          /\ IsGame(G)
    /\ \/ gui = GameGUI(AiScreen, "human", "BasicAI")
       \/ \E ai_difficulty \in InitDifficulties :
             gui = GameGUI(AiScreen, "ai", ai_difficulty)
       \/ num_players = 2 /\ gui = GameGUI(AiScreen, "ai_vs_ai", "BasicAI")
    /\ is_setup = TRUE
    /\ calls = 0
    /\ ret = Returned("start_game", FALSE, "", "")
    /\ prev = Self

\* A left click in state "game": in AI mode only on player 1's turn.  An
\* exception that leaves the handler ends the program.
GuiClick(max) ==
    /\ gui.game_state = "game" /\ calls < max /\ ret.raised = ""
    /\ gui.pc = "run"
    /\ gui.mode = "human" \/ current_player_index + 1 = 1
    /\ \E mouse_pos \in ClickPositions(gui) :
          LET h == handle_board_click(Self, gui, mouse_pos)
          IN  /\ GameBecomes(h.game)
              /\ gui' = h.gui
              /\ ret' = Returned("handle_board_click", h.success,
                                 h.combat_type, h.raised)
    /\ calls' = calls + 1
    /\ UNCHANGED is_setup

\* The timer update of a frame of the main loop.
GuiTick(max) ==
    /\ gui.game_state = "game" /\ calls < max /\ ret.raised = ""
    /\ gui.pc = "run"
    /\ ~game_over
    /\ \E dt \in Dts :
          LET r == update_timer(Self, dt)
          IN  /\ GameBecomes(r.game)
              /\ ret' = Returned("update_timer", r.expired, "", "")
    /\ calls' = calls + 1
    /\ UNCHANGED <<is_setup, gui>>

\* The AI turn of a frame of the main loop, in AI mode on the turn of
\* player 2, or of either player in an AI-vs-AI game: play_ai_turn up to
\* time.sleep.  AiPlay is the rest of it.
GuiAiTurn(max) ==
    /\ gui.game_state = "game" /\ calls < max /\ ret.raised = ""
    /\ gui.pc = "run"
    /\ gui.mode # "human" /\ ~game_over
    /\ gui.mode = "ai_vs_ai" \/ current_player_index + 1 = 2
    /\ \E chosen \in choose_move(AiStrategy(Self, gui), Self) :
          LET h == play_ai_turn_shown(Self, gui, chosen)
          IN  /\ GameBecomes(h.game)
              /\ gui' = h.gui
              /\ ret' = Returned(IF h.gui.pc = "sleep" THEN "choose_move"
                                 ELSE "play_ai_turn", FALSE, "", "")
    /\ calls' = calls + 1
    /\ UNCHANGED is_setup

\* A VIDEORESIZE event to another size, handled in every state of the GUI.
GuiResize(max) ==
    /\ calls < max /\ ret.raised = "" /\ gui.pc = "run"
    /\ \E new_size \in ScreenSizes \ {gui.screen} :
          gui' = handle_resize(gui, new_size)
    /\ GameBecomes(Self)
    /\ ret' = Returned("handle_resize", FALSE, "", "")
    /\ calls' = calls + 1
    /\ UNCHANGED is_setup

\* Keys pressed.
Keys == {"K_ESCAPE", "K_SPACE"}

\* A KEYDOWN event of a key that does something in the state of the GUI.
GuiKeyDown(max) ==
    /\ calls < max /\ ret.raised = "" /\ gui.pc = "run"
    /\ \E key \in Keys : key_down(gui, key) # gui /\ gui' = key_down(gui, key)
    /\ GameBecomes(Self)
    /\ ret' = Returned("key_down", FALSE, "", "")
    /\ calls' = calls + 1
    /\ UNCHANGED is_setup

\* Mouse positions of the clicks explored in the menu: the centre of every
\* button on the screen and a point between the first two buttons.
MenuClickPositions(U) ==
    {pos \in {<<U.screen[1] \div 2, 340 + i * (50 + 20) + 25>> : i \in MenuButtons}
                \cup {<<U.screen[1] \div 2, 340 + 50 + 10>>} :
        pos[2] < U.screen[2]}

\* The number of players of the game a menu click starts, if it starts one:
\* 3 on the second button, 2 on the others.
MenuPlayers(U, mouse_pos) == IF OnButton(U, 1, mouse_pos) THEN 3 ELSE 2

\* A left click in state "menu".  Quit ends the program.
GuiMenuClick(max) ==
    /\ gui.game_state = "menu" /\ calls < max /\ ret.raised = ""
    /\ gui.pc = "run"
    /\ \E mouse_pos \in MenuClickPositions(gui) :
          \E rnd \in RandomOutcomes(MenuPlayers(gui, mouse_pos)) :
              LET h == handle_menu_click(Self, gui, mouse_pos, rnd)
              IN  /\ GameBecomes(h.game)
                  /\ gui' = h.gui
                  /\ ret' = Returned("handle_menu_click", FALSE, "", h.raised)
    /\ calls' = calls + 1
    /\ UNCHANGED is_setup

NextGUI ==
    \/ GuiClick(MaxGuiCalls)
    \/ GuiTick(MaxGuiCalls)
    \/ GuiAiTurn(MaxGuiCalls)
    \/ AiPlay
    \/ GuiResize(MaxGuiCalls)
    \/ GuiKeyDown(MaxGuiCalls)
    \/ GuiMenuClick(MaxGuiCalls)

\* A game in progress driven through the GUI for MaxGuiCalls events, timer
\* updates and AI turns.
SpecGUI == InitGUI /\ [][NextGUI]_vars

\* ================================================================== claims
\* ---- vocabulary of the claims
Cells == Rows \X Rows

At(G, row, col) == G.grid[row][col]

PieceCount(g) == Cardinality({rc \in Cells : g[rc[1]][rc[2]] # None})

OwnedCells(g, p) ==
    {rc \in Cells : g[rc[1]][rc[2]] # None /\ g[rc[1]][rc[2]].player_id = p}

PlayersWithPieces(G) == {p \in PlayerIds(G.num_players) : OwnedCells(G.grid, p) # {}}

CurrentPlayerId(G) == G.current_player_index + 1

\* The legality conditions of the specification for a move a =
\* (from_row, from_col, to_row, to_col) submitted in state G.
Legal(G, a) ==
    /\ InBounds(a[1], a[2])
    /\ At(G, a[1], a[2]) # None
    /\ At(G, a[1], a[2]).player_id = CurrentPlayerId(G)
    /\ InBounds(a[3], a[4])
    /\ Abs(a[3] - a[1]) + Abs(a[4] - a[2]) = 1
    /\ At(G, a[3], a[4]).player_id # CurrentPlayerId(G)

Played(G, a) == play_turn(G, a[1], a[2], a[3], a[4])

\* The last call was play_turn with arguments a.
LastPlayed(a) ==
    /\ calls > 0
    /\ ret.op = "play_turn"
    /\ a \in MoveInputs(prev)
    /\ LET r == Played(prev, a)
       IN  /\ IsGame(r.game)
           /\ ret = Returned("play_turn", r.success, r.combat_type, r.raised)

\* C1: play_turn is accepted exactly for the legal moves: source on the
\* board, occupied and owned by the current player, destination on the board
\* at Manhattan distance 1 and not occupied by a piece of the same owner.
C1_AcceptedIffLegal ==
    \A a \in MoveInputs(Self) : Played(Self, a).success <=> Legal(Self, a)

\* C1 witness: a legal move has just been accepted.
C1_Witness ==
    \E a \in MoveInputs(prev) : LastPlayed(a) /\ Legal(prev, a) /\ ret.value

\* C2 (as claimed): every illegal move is a boolean failure, never an
\* exception, and leaves the whole game state unchanged.
C2_IllegalIsBooleanFailure ==
    \A a \in MoveInputs(Self) :
        ~Legal(Self, a) =>
            LET r == Played(Self, a)
                m == move_piece(grid, a[1], a[2], a[3], a[4])
            IN  /\ r.raised = ""
                /\ ~r.success
                /\ r.game = Self
                /\ (m.success => At(Self, a[1], a[2]).player_id # CurrentPlayerId(Self))

\* Pieces get_random_piece has handed out to setup_board, which places each.
PlacedAtSetup(G) ==
    LET taken[p \in 0 .. G.num_players] ==
            IF p = 0 THEN 0
            ELSE taken[p - 1] + Len(Player_init(p)) - Len(G.pieces[p])
    IN  taken[G.num_players]

\* C3: the board never holds more pieces than setup placed; an accepted move
\* onto an enemy piece removes exactly 1 piece when one side wins and exactly
\* 2 on a draw; a relocation, a rejected move and update_timer remove none.
C3_PieceCount ==
    /\ is_setup => PieceCount(grid) <= PlacedAtSetup(Self)
    /\ ret.op = "setup_board" => PieceCount(grid) = PlacedAtSetup(Self)
    /\ \A a \in MoveInputs(Self) :
          LET r == Played(Self, a)
              after == PieceCount(r.game.grid)
          IN  IF ~r.success \/ At(Self, a[3], a[4]) = None
              THEN after = PieceCount(grid)
              ELSE IF At(Self, a[3], a[4]).type # At(Self, a[1], a[2]).type
              THEN after = PieceCount(grid) - 1
              ELSE after = PieceCount(grid) - 2
    /\ \A dt \in Dts :
          PieceCount(update_timer(Self, dt).game.grid) = PieceCount(grid)

\* C3 witness: the last move was a combat one side won, one piece fewer.
C3_Witness ==
    \E a \in MoveInputs(prev) :
        /\ LastPlayed(a) /\ ret.value /\ ret.combat_type # ""
        /\ PieceCount(grid) = PieceCount(prev.grid) - 1
        /\ PieceCount(grid) < PlacedAtSetup(Self)

\* A legal move onto an enemy piece of the same type.
IsDraw(G, a) ==
    /\ Legal(G, a)
    /\ At(G, a[3], a[4]) # None
    /\ At(G, a[3], a[4]).type = At(G, a[1], a[2]).type

\* C4: a move onto an adjacent enemy piece of the same type is accepted and
\* empties both the origin and the destination cell; no other cell changes,
\* so the piece count drops by exactly 2.
C4_DrawRemovesBoth ==
    \A a \in MoveInputs(Self) :
        IsDraw(Self, a) =>
            LET r == Played(Self, a)
            IN  /\ r.success
                /\ r.game.grid =
                      SetCell(SetCell(grid, a[1], a[2], None), a[3], a[4], None)
                /\ PieceCount(r.game.grid) = PieceCount(grid) - 2

\* C4 witness: the last move was a draw.
C4_Witness ==
    \E a \in MoveInputs(prev) :
        /\ LastPlayed(a) /\ IsDraw(prev, a)
        /\ grid[a[1]][a[2]] = None /\ grid[a[3]][a[4]] = None

AllPieces == [type : PieceTypes, player_id : 1 .. 3]

Beats(t1, t2) == <<t1, t2>> \in {<<"R", "S">>, <<"P", "R">>, <<"S", "P">>}

\* C5: for every pair of pieces (any type, any owner, those on the board
\* included) resolve_combat depends on the two types only and follows the 3x3
\* table: 0 exactly on equal types, 1 when the first type beats the second,
\* -1 otherwise; hence resolve_combat(a, b) = -resolve_combat(b, a).
C5_CombatTable ==
    LET on_board == {grid[rc[1]][rc[2]] : rc \in Cells} \ {None}
        fighters == AllPieces \cup on_board
    IN  \A p1 \in fighters, p2 \in fighters :
            LET r == resolve_combat(p1, p2)
            IN  /\ (r = 0) <=> (p1.type = p2.type)
                /\ (r = 1) <=> Beats(p1.type, p2.type)
                /\ (r = -1) <=> Beats(p2.type, p1.type)
                /\ r = -resolve_combat(p2, p1)
                /\ \A o1 \in 1 .. 3, o2 \in 1 .. 3 :
                      resolve_combat(Piece(p1.type, o1), Piece(p2.type, o2)) = r

\* C5 witness: the last move was a combat that resolve_combat gave to the
\* defender, whose type beats the attacker's.
C5_Witness ==
    \E a \in MoveInputs(prev) :
        /\ LastPlayed(a) /\ ret.value /\ ret.combat_type # ""
        /\ resolve_combat(At(prev, a[1], a[2]), At(prev, a[3], a[4])) = -1
        /\ Beats(At(prev, a[3], a[4]).type, At(prev, a[1], a[2]).type)

\* C6: check_game_over returns true, sets game_over and records the sole
\* player with pieces as winner when exactly one player has pieces; returns
\* true, sets game_over and records no winner when the board is empty;
\* returns false and changes nothing when two or more players have pieces.
C6_CheckGameOver ==
    LET r == check_game_over(Self)
        left == PlayersWithPieces(Self)
    IN  /\ r.game = [Self EXCEPT !.game_over = r.game.game_over,
                                 !.winner = r.game.winner]
        /\ Cardinality(left) = 1 =>
              r.result /\ r.game.game_over /\ r.game.winner \in left
        /\ left = {} =>
              r.result /\ r.game.game_over /\ r.game.winner = NoWinner
        /\ Cardinality(left) >= 2 => ~r.result /\ r.game = Self

\* C6 witness: check_game_over, called by next_turn for the player whose last
\* piece was just captured, has ended the game and recorded the winner.
C6_Witness ==
    /\ calls > 0 /\ ret.op = "play_turn" /\ ret.combat_type # ""
    /\ ~prev.game_over /\ Cardinality(PlayersWithPieces(prev)) = 2
    /\ game_over /\ PlayersWithPieces(Self) = {winner}

\* C7 (as claimed): whenever an accepted play_turn leaves at most one player
\* with pieces, game_over is true when play_turn returns, the winner being
\* the sole remaining player, or none if no piece remains.
C7_GameOverWhenOneLeft ==
    \A a \in MoveInputs(Self) :
        LET r == Played(Self, a)
            left == PlayersWithPieces(r.game)
        IN  (r.success /\ Cardinality(left) <= 1) =>
                /\ r.game.game_over
                /\ IF left = {} THEN r.game.winner = NoWinner
                                ELSE r.game.winner \in left

\* C8 (as claimed): once game_over is true no play_turn is accepted, and
\* neither play_turn nor update_timer changes the board, the current player
\* index or the winner.
C8_GameOverIsTerminal ==
    game_over =>
        /\ \A a \in MoveInputs(Self) :
              LET r == Played(Self, a)
              IN  /\ ~r.success
                  /\ r.game.grid = grid
                  /\ r.game.current_player_index = current_player_index
                  /\ r.game.winner = winner
        /\ \A dt \in Dts :
              LET t == update_timer(Self, dt).game
              IN  /\ t.grid = grid
                  /\ t.current_player_index = current_player_index
                  /\ t.winner = winner

\* The cells of player p's starting area.
Area(n, p) == {starting_areas(n)[p][i] : i \in 1 .. Len(starting_areas(n)[p])}

\* C9 (as claimed): setup_board places exactly 12 pieces per player, 4 of
\* each type, each inside its owner's area, and the areas are disjoint.
C9_SetupPlacesTwelve ==
    ret.op = "setup_board" =>
        /\ \A p \in PlayerIds(num_players) :
              /\ Cardinality(OwnedCells(grid, p)) = 3 * 4
              /\ \A t \in PieceTypes :
                    Cardinality({rc \in OwnedCells(grid, p) :
                                    grid[rc[1]][rc[2]].type = t}) = 4
              /\ OwnedCells(grid, p) \subseteq Area(num_players, p)
        /\ \A p \in PlayerIds(num_players), q \in PlayerIds(num_players) :
              p # q => Area(num_players, p) \cap Area(num_players, q) = {}

\* C10 (as claimed): once setup_board has run, every player's list of
\* unplaced pieces is empty.
C10_InventoryEmptyAfterSetup ==
    is_setup => \A p \in PlayerIds(num_players) : pieces[p] = <<>>

\* C11: every accepted play_turn (relocation, won or lost combat, draw)
\* resets the turn timer to TURN_TIME and, when at least two players still
\* have pieces, hands the turn to a player other than the mover; a rejected
\* play_turn leaves the current player and the timer unchanged.
C11_AcceptedAdvancesTurn ==
    \A a \in MoveInputs(Self) :
        LET r == Played(Self, a)
        IN  IF r.success
            THEN /\ r.game.turn_timer = TURN_TIME
                 /\ Cardinality(PlayersWithPieces(r.game)) >= 2 =>
                        CurrentPlayerId(r.game) # CurrentPlayerId(Self)
            ELSE /\ r.game.current_player_index = current_player_index
                 /\ r.game.turn_timer = turn_timer

\* C11 witness: an attack that the attacker lost has just been accepted; the
\* timer is back at TURN_TIME and the turn is with another player.
C11_Witness ==
    \E a \in MoveInputs(prev) :
        /\ LastPlayed(a) /\ ret.value /\ ret.combat_type # ""
        /\ At(Self, a[3], a[4]) = At(prev, a[3], a[4])
        /\ Cardinality(PlayersWithPieces(Self)) >= 2
        /\ current_player_index # prev.current_player_index
        /\ turn_timer = TURN_TIME

\* C12: update_timer(dt) reports expiry exactly when the countdown less dt is
\* <= 0; on expiry the turn passes as by one next_turn and the timer is back
\* at TURN_TIME; otherwise the countdown is reduced by dt and the current
\* player is unchanged; the board is unchanged in both cases.
C12_UpdateTimer ==
    \A dt \in Dts :
        LET r == update_timer(Self, dt)
            n == next_turn(Self)
        IN  /\ r.expired <=> (turn_timer - dt <= 0)
            /\ r.game.grid = grid
            /\ IF r.expired
               THEN /\ r.game.turn_timer = TURN_TIME
                    /\ r.game.current_player_index = n.current_player_index
                    /\ r.game.game_over = n.game_over
                    /\ r.game.winner = n.winner
               ELSE /\ r.game.turn_timer = turn_timer - dt
                    /\ r.game.current_player_index = current_player_index
                    /\ r.game.game_over = game_over
                    /\ r.game.winner = winner

\* C12 witness: update_timer has just reported expiry with the countdown at
\* exactly zero, and the turn has passed to another player on the same board.
C12_Witness ==
    /\ calls > 0 /\ ret.op = "update_timer" /\ ret.value
    /\ \E dt \in Dts : prev.turn_timer - dt = 0 /\ IsGame(update_timer(prev, dt).game)
    /\ current_player_index # prev.current_player_index
    /\ grid = prev.grid /\ turn_timer = TURN_TIME

\* The orthogonal neighbours of (row, col) that are on the board.
Neighbours(row, col) ==
    {rc \in Cells : Abs(rc[1] - row) + Abs(rc[2] - col) = 1}

Corners == {0, BOARD_SIZE - 1} \X {0, BOARD_SIZE - 1}

SeqToSet(seq) == {seq[i] : i \in 1 .. Len(seq)}

\* C13: for every occupied cell get_valid_moves returns, without raising and
\* without repetition, exactly the on-board orthogonal neighbours that are
\* empty or hold a piece of another owner, whatever the combat would give;
\* so at most 2 moves from a corner and exactly 4 from a piece whose four
\* neighbours are all empty.
C13_ValidMoves ==
    \A rc \in Cells :
        At(Self, rc[1], rc[2]) # None =>
            LET v == get_valid_moves(Self, rc[1], rc[2])
                open == {m \in Neighbours(rc[1], rc[2]) :
                            At(Self, m[1], m[2]).player_id #
                                At(Self, rc[1], rc[2]).player_id}
            IN  /\ v.raised = ""
                /\ SeqToSet(v.moves) = open
                /\ Len(v.moves) = Cardinality(open)
                /\ rc \in Corners => Len(v.moves) <= 2
                /\ ( /\ Cardinality(Neighbours(rc[1], rc[2])) = 4
                     /\ \A m \in Neighbours(rc[1], rc[2]) :
                            At(Self, m[1], m[2]) = None )
                   => Len(v.moves) = 4

\* C13 witness: a piece has just moved out of its starting area to a cell
\* with four empty neighbours, which get_valid_moves all returns, while a
\* corner piece next to a piece of its own side has fewer than 2 moves.
C13_Witness ==
    /\ calls > 0 /\ ret.op = "play_turn" /\ ret.value
    /\ \E rc \in Cells :
          /\ At(Self, rc[1], rc[2]) # None
          /\ \A m \in Neighbours(rc[1], rc[2]) : At(Self, m[1], m[2]) = None
          /\ Len(get_valid_moves(Self, rc[1], rc[2]).moves) = 4
    /\ \E rc \in Corners :
          /\ At(Self, rc[1], rc[2]) # None
          /\ Len(get_valid_moves(Self, rc[1], rc[2]).moves) < 2

\* C14: Game(n) raises for every n other than 2 and 3 and constructs nothing;
\* for n = 2 or 3 it yields a game with players 1..n, current player index
\* 0, game_over false, no winner, the timer at TURN_TIME and an empty board;
\* so every newly constructed game has 2 or 3 players.
C14_Constructor ==
    /\ \A n \in NumPlayersArgs :
          LET r == Game_new(n)
          IN  IF n \in {2, 3}
              THEN /\ r.raised = ""
                   /\ r.game.num_players = n
                   /\ DOMAIN r.game.pieces = 1 .. n
                   /\ r.game.current_player_index = 0
                   /\ ~r.game.game_over
                   /\ r.game.winner = NoWinner
                   /\ r.game.turn_timer = TURN_TIME
                   /\ PieceCount(r.game.grid) = 0
              ELSE r.raised # "" /\ DOMAIN r = {"raised"}
    /\ ret.op = "Game" =>
          /\ num_players \in {2, 3}
          /\ DOMAIN pieces = 1 .. num_players
          /\ current_player_index = 0 /\ ~game_over /\ winner = NoWinner
          /\ turn_timer = TURN_TIME /\ PieceCount(grid) = 0

\* C14 witness: a game for 3 players has just been constructed, and the
\* constructor refuses 4.
C14_Witness ==
    /\ ret.op = "Game" /\ ~is_setup /\ num_players = 3
    /\ Self = Game_new(3).game
    /\ Game_new(4).raised = "ValueError"

\* Player ids met when stepping k times from index i in cyclic order.
PlayerAfter(G, i, k) == ((i + k) % G.num_players) + 1

\* C18: whenever next_turn returns with game_over false, the current player
\* has a piece on the board and is the first player with pieces after the
\* previous current player in cyclic order.
C18_NextTurnSkips ==
    LET n == next_turn(Self)
    IN  ~n.game_over =>
            /\ CurrentPlayerId(n) \in PlayersWithPieces(n)
            /\ n.grid = grid
            /\ \E k \in 1 .. num_players :
                  /\ CurrentPlayerId(n) = PlayerAfter(Self, current_player_index, k)
                  /\ \A j \in 1 .. (k - 1) :
                        PlayerAfter(Self, current_player_index, j)
                            \notin PlayersWithPieces(Self)

\* C18 witness: next_turn has just passed over a player without pieces and
\* stopped at the following player, who has pieces, the game going on.
C18_Witness ==
    /\ calls > 0 /\ ret.op = "next_turn" /\ ~game_over
    /\ IsGame(next_turn(prev))
    /\ PlayerAfter(prev, prev.current_player_index, 1) \notin PlayersWithPieces(prev)
    /\ CurrentPlayerId(Self) = PlayerAfter(prev, prev.current_player_index, 2)
    /\ CurrentPlayerId(Self) \in PlayersWithPieces(Self)

\* C19: in every reachable state, also with one player or no player left on
\* the board, the skip loop of next_turn returns after at most num_players
\* index advances.
C19_SkipLoopBounded ==
    /\ next_turn_counted(Self).advances <= num_players
    /\ next_turn_counted(Self).advances >= 1

\* C19 witness: a draw has just emptied the board and next_turn, called by
\* play_turn, has returned with the game over and no winner.
C19_Witness ==
    /\ calls > 0 /\ ret.op = "play_turn" /\ ret.value
    /\ PieceCount(prev.grid) = 2 /\ PieceCount(grid) = 0
    /\ game_over /\ winner = NoWinner
    /\ next_turn_counted(Self).advances = 1

\* Move a attacks an enemy piece of another type in state G.
IsDecisiveAttack(G, a) ==
    /\ Legal(G, a)
    /\ At(G, a[3], a[4]) # None
    /\ At(G, a[3], a[4]).type # At(G, a[1], a[2]).type

\* C20: an accepted move onto an enemy piece of a different type succeeds
\* and removes exactly one piece: if the attacker's type beats the
\* defender's, the attacker stands on the destination and the origin is
\* empty; otherwise the origin is empty and the defender stands unchanged on
\* its cell; no other cell changes.
C20_DecisiveCombat ==
    \A a \in MoveInputs(Self) :
        IsDecisiveAttack(Self, a) =>
            LET r == Played(Self, a)
                attacker == At(Self, a[1], a[2])
                defender == At(Self, a[3], a[4])
            IN  /\ r.success /\ r.raised = ""
                /\ At(r.game, a[1], a[2]) = None
                /\ At(r.game, a[3], a[4]) =
                      IF Beats(attacker.type, defender.type)
                      THEN attacker ELSE defender
                /\ PieceCount(r.game.grid) = PieceCount(grid) - 1
                /\ \A rc \in Cells \ {<<a[1], a[2]>>, <<a[3], a[4]>>} :
                      At(r.game, rc[1], rc[2]) = At(Self, rc[1], rc[2])

\* C20 witness: the last move was a won attack on an enemy piece of another
\* type; the attacker now stands on the defender's cell.
C20_Witness ==
    \E a \in MoveInputs(prev) :
        /\ LastPlayed(a) /\ ret.value /\ IsDecisiveAttack(prev, a)
        /\ Beats(At(prev, a[1], a[2]).type, At(prev, a[3], a[4]).type)
        /\ At(Self, a[3], a[4]) = At(prev, a[1], a[2])
        /\ At(Self, a[1], a[2]) = None

\* The program is in the main loop, from where play_ai_turn calls
\* choose_move; while play_ai_turn waits in time.sleep nothing is called.
InMainLoop == gui.pc = "run"

\* The last call was play_ai_turn, and it played move m chosen in prev.
LastAiPlayed(m) ==
    /\ calls > 0 /\ ret.op = "play_ai_turn" /\ m # NoMove
    /\ IsGame(check_game_over(Played(prev, m).game).game)

\* The current player of G has a piece with a legal destination.
HasLegalMove(G) ==
    \E rc \in OwnedCells(G.grid, CurrentPlayerId(G)) :
        get_valid_moves(G, rc[1], rc[2]).moves # <<>>

\* C15: for each of the four strategies choose_move returns no move exactly
\* when the current player has no piece with a legal destination; otherwise
\* the source of the returned move holds a piece of the current player, the
\* destination is among get_valid_moves of the source, and play_turn accepts
\* the move; the get_valid_moves calls it makes do not raise.
C15_ChooseMoveLegal ==
    InMainLoop =>
        /\ \A rc \in OwnedCells(grid, CurrentPlayerId(Self)) :
              get_valid_moves(Self, rc[1], rc[2]).raised = ""
        /\ \A strategy \in Strategies : \A chosen \in choose_move(strategy, Self) :
              LET m == chosen.move
              IN  /\ m = NoMove <=> ~HasLegalMove(Self)
                  /\ m # NoMove =>
                        /\ <<m[1], m[2]>> \in OwnedCells(grid, CurrentPlayerId(Self))
                        /\ <<m[3], m[4]>> \in
                              SeqToSet(get_valid_moves(Self, m[1], m[2]).moves)
                        /\ Played(Self, m).success
                        /\ Played(Self, m).raised = ""

\* C15 witness: an AI turn has just been accepted and has taken the last
\* piece of the player now to move, for whom every strategy returns no move.
C15_Witness ==
    /\ \E strategy \in Strategies : \E chosen \in choose_move(strategy, prev) :
          LastAiPlayed(chosen.move) /\ ret.value
    /\ ~HasLegalMove(Self)
    /\ \A strategy \in Strategies :
          \A chosen \in choose_move(strategy, Self) : chosen.move = NoMove

\* C16: choose_move of every strategy leaves the game as it was: every
\* board cell, the current player index, the turn timer, game_over and the
\* winner are the same after the call as before it.
C16_ChooseMoveFrame ==
    InMainLoop =>
        \A strategy \in Strategies : \A chosen \in choose_move(strategy, Self) :
            /\ \A rc \in Cells : At(chosen.game, rc[1], rc[2]) = At(Self, rc[1], rc[2])
            /\ chosen.game.current_player_index = current_player_index
            /\ chosen.game.turn_timer = turn_timer
            /\ chosen.game.game_over = game_over
            /\ chosen.game.winner = winner

\* C16 witness: the last AI turn played a capture found by the MinimaxAI
\* search, which had moved pieces on its copies only.
C16_Witness ==
    \E chosen \in choose_move("MinimaxAI", prev) :
        /\ LastAiPlayed(chosen.move) /\ ret.value /\ ret.combat_type # ""
        /\ chosen.game = prev
        /\ make_move_on_copy(copy_board(prev), chosen.move[1], chosen.move[2],
                             chosen.move[3], chosen.move[4]).rows
               # copy_board(prev).rows

\* The score of a board under the search of depth levels without pruning:
\* the maximum over the moves of player_id when maximizing, the minimum over
\* the moves of the player after the current one otherwise.
RECURSIVE SearchScore(_, _, _, _, _)
SearchScore(G, board, depth, is_maximizing, player_id) ==
    LET mover == IF is_maximizing THEN player_id
                 ELSE ((G.current_player_index + 1) % G.num_players) + 1
        moves == get_possible_moves(board, mover)
        after(i) == make_move_on_copy(board, moves[i][1], moves[i][2],
                                      moves[i][3], moves[i][4])
        evals == {SearchScore(G, after(i), depth - 1, ~is_maximizing, player_id) :
                     i \in 1 .. Len(moves)}
    IN  IF depth = 0 THEN evaluate_board(board, player_id)
        ELSE IF evals = {} THEN (IF is_maximizing THEN -Infinity ELSE Infinity)
        ELSE IF is_maximizing
        THEN CHOOSE x \in evals : \A y \in evals : y <= x
        ELSE CHOOSE x \in evals : \A y \in evals : x <= y

\* The moves of the current player in enumeration order: by piece in board
\* order, by destination right, down, left, up.
Candidates(G) ==
    candidate_moves(get_valid_pieces_with_moves(G, CurrentPlayerId(G)), 1)

\* The search scores of the candidate moves cands, from the i-th on.
RECURSIVE CandidateScores(_, _, _)
CandidateScores(G, cands, i) ==
    IF i > Len(cands) THEN <<>>
    ELSE <<SearchScore(G,
                       make_move_on_copy(copy_board(G), cands[i][1], cands[i][2],
                                         cands[i][3], cands[i][4]),
                       max_depth - 1, FALSE, CurrentPlayerId(G))>>
         \o CandidateScores(G, cands, i + 1)

\* The first index attaining the maximum of a list of scores.
FirstBest(score) ==
    CHOOSE i \in 1 .. Len(score) :
        /\ \A j \in 1 .. Len(score) : score[j] <= score[i]
        /\ \A j \in 1 .. (i - 1) : score[j] < score[i]

\* C17: whenever the current player has a legal move, MinimaxAI.choose_move
\* returns, whatever the random generator would draw, the first candidate in
\* enumeration order that attains the maximum score of the search without
\* pruning, and its loop has set best_move, so the random fallback is not
\* taken.
C17_MinimaxDeterministic ==
    (InMainLoop /\ HasLegalMove(Self)) =>
        LET searched == MinimaxAI_searched(Self)
            cands == Candidates(Self)
            score == CandidateScores(Self, cands, 1)
            returned == {MinimaxAI_return(Self, searched, rnd) :
                            rnd \in RandomDraws(Self)}
        IN  /\ searched.best_move # 0
            /\ returned = {cands[FirstBest(score)]}
            /\ returned = {chosen.move : chosen \in choose_move("MinimaxAI", Self)}

\* C17 witness: the last AI turn played the move MinimaxAI returns, the
\* first of two or more candidates that tied for the maximum search score.
C17_Witness ==
    /\ calls > 0 /\ HasLegalMove(prev)
    /\ LET cands == Candidates(prev)
           score == CandidateScores(prev, cands, 1)
           first == FirstBest(score)
       IN  /\ LastAiPlayed(cands[first])
           /\ \E j \in (first + 1) .. Len(score) : score[j] = score[first]
           /\ \A chosen \in choose_move("MinimaxAI", prev) :
                 chosen.move = cands[first]

\* The candidate moves of the current player of G whose destination holds an
\* enemy piece that the moving piece beats.
CapturingMoves(G) ==
    {m \in SeqToSet(Candidates(G)) :
        /\ At(G, m[3], m[4]) # None
        /\ resolve_combat(At(G, m[1], m[2]), At(G, m[3], m[4])) = 1}

\* The candidate moves of the current player of G to an empty cell.
SafeMoves(G) == {m \in SeqToSet(Candidates(G)) : At(G, m[3], m[4]) = None}

\* C21 (as claimed): BasicAI.choose_move returns a capturing move whenever
\* the current player has one; otherwise a move to an empty cell whenever
\* there is one; a losing or drawing destination only when the player has
\* neither.
C21_BasicPriority ==
    \A chosen \in choose_move("BasicAI", Self) :
        LET m == chosen.move
        IN  m # NoMove =>
                /\ CapturingMoves(Self) # {} => m \in CapturingMoves(Self)
                /\ (CapturingMoves(Self) = {} /\ SafeMoves(Self) # {}) =>
                       m \in SafeMoves(Self)

\* The evaluate_move scores of the candidate moves cands, from the i-th on.
RECURSIVE MoveScores(_, _, _)
MoveScores(G, cands, i) ==
    IF i > Len(cands) THEN <<>>
    ELSE <<evaluate_move(G, cands[i][1], cands[i][2], cands[i][3], cands[i][4],
                         CurrentPlayerId(G))>>
         \o MoveScores(G, cands, i + 1)

\* The position of the step from (row, col) to (to_row, to_col) in the order
\* right, down, left, up.
StepRank(m) ==
    CHOOSE k \in 1 .. 4 :
        <<m[3] - m[1], m[4] - m[2]>> = <<<<0, 1>>, <<1, 0>>, <<0, -1>>, <<-1, 0>>>>[k]

\* Evaluation order: sources in row-major order, then steps in the order
\* right, down, left, up.
EvaluationRank(m) == (m[1] * BOARD_SIZE + m[2]) * 4 + StepRank(m)

\* C22: whenever the current player has a legal move, AdvancedAI.choose_move
\* returns, whatever the random generator would draw, the first move in
\* evaluation order (pieces row-major, destinations right, down, left, up)
\* whose evaluate_move score is the maximum over all legal moves.
C22_AdvancedPicksFirstMax ==
    (InMainLoop /\ HasLegalMove(Self)) =>
        LET cands == Candidates(Self)
            score == MoveScores(Self, cands, 1)
            returned == {chosen.move : chosen \in choose_move("AdvancedAI", Self)}
        IN  /\ \A i \in 1 .. Len(cands), j \in 1 .. Len(cands) :
                  i < j => EvaluationRank(cands[i]) < EvaluationRank(cands[j])
            /\ \A rc \in OwnedCells(grid, CurrentPlayerId(Self)) :
                  \A to \in Neighbours(rc[1], rc[2]) :
                      Legal(Self, <<rc[1], rc[2], to[1], to[2]>>) <=>
                          <<rc[1], rc[2], to[1], to[2]>> \in SeqToSet(cands)
            /\ returned = {cands[FirstBest(score)]}

\* C22 witness: the last AI turn played the move AdvancedAI returns, the
\* first of two or more moves that tied for the maximum evaluate_move score.
C22_Witness ==
    /\ calls > 0 /\ HasLegalMove(prev)
    /\ LET cands == Candidates(prev)
           score == MoveScores(prev, cands, 1)
           first == FirstBest(score)
       IN  /\ LastAiPlayed(cands[first])
           /\ \E j \in (first + 1) .. Len(score) : score[j] = score[first]
           /\ \A chosen \in choose_move("AdvancedAI", prev) :
                 chosen.move = cands[first]

\* The pieces of player p per type on grid g.
CountsOnBoard(g, p) ==
    [t \in PieceTypes |->
        Cardinality({rc \in OwnedCells(g, p) : g[rc[1]][rc[2]].type = t})]

\* C23 (as claimed): for every legal move of the current player, the type
\* counts behind the type-balance term of evaluate_move are the player's
\* counts on the board as the move would leave it, a piece lost in the
\* move's combat not being counted.
C23_TypeBalanceAfterMove ==
    \A i \in 1 .. Len(Candidates(Self)) :
        LET m == Candidates(Self)[i]
            after == move_piece(grid, m[1], m[2], m[3], m[4]).grid
        IN  type_counts(Self, m[1], m[2], CurrentPlayerId(Self))
                = CountsOnBoard(after, CurrentPlayerId(Self))

\* The moves of player p on the rows of a snapshot: from a cell p holds to an
\* orthogonal neighbour on the board that is empty or held by another player.
SnapshotMoves(rows, p) ==
    UNION {{<<rc[1], rc[2], to[1], to[2]>> :
               to \in {n \in Neighbours(rc[1], rc[2]) :
                          \/ rows[n[1]][n[2]] = NoPiece
                          \/ rows[n[1]][n[2]][2] # p}} :
           rc \in {c \in Cells : /\ rows[c[1]][c[2]] # NoPiece
                                  /\ rows[c[1]][c[2]][2] = p}}

\* The static evaluations for player p of the snapshots the opponent opp can
\* reach by one reply on snapshot snap.
ReplyLeaves(snap, opp, p) ==
    {evaluate_board(make_move_on_copy(snap, r[1], r[2], r[3], r[4]), p) :
        r \in SnapshotMoves(snap.rows, opp)}

\* The snapshot after candidate move m of the current player of G.
SnapshotAfter(G, m) == make_move_on_copy(copy_board(G), m[1], m[2], m[3], m[4])

\* C24: the search is two plies deep: the score MinimaxAI.choose_move gives
\* a candidate move is the minimum, over the replies of the player after the
\* current one on the snapshot after the move, of evaluate_board of the
\* snapshot after the reply for the own player (+infinity when there is no
\* reply), and at depth 0 minimax is the static evaluation.
C24_TwoPlies ==
    InMainLoop =>
        LET cands == Candidates(Self)
            p == CurrentPlayerId(Self)
            opp == PlayerAfter(Self, current_player_index, 1)
            scores == MinimaxAI_scores(Self, cands, 1, p).scores
        IN  /\ max_depth = 2
            /\ Len(scores) = Len(cands)
            /\ \A i \in 1 .. Len(cands) :
                  LET snap == SnapshotAfter(Self, cands[i])
                      leaves == ReplyLeaves(snap, opp, p)
                  IN  /\ leaves # {} =>
                             /\ scores[i] \in leaves
                             /\ \A x \in leaves : scores[i] <= x
                      /\ leaves = {} => scores[i] = Infinity
                      /\ \A is_maximizing \in BOOLEAN :
                            minimax(Self, snap, 0, is_maximizing, p,
                                    -Infinity, Infinity) = evaluate_board(snap, p)

\* C24 witness: the last AI turn played the move MinimaxAI returns, whose
\* score was the least of two or more different evaluations after the
\* opponent's replies.
C24_Witness ==
    /\ calls > 0 /\ HasLegalMove(prev)
    /\ LET searched == MinimaxAI_searched(prev)
           m == searched.candidates[searched.best_move]
           p == CurrentPlayerId(prev)
           leaves == ReplyLeaves(SnapshotAfter(prev, m),
                                 PlayerAfter(prev, prev.current_player_index, 1), p)
       IN  /\ searched.best_move # 0
           /\ LastAiPlayed(m)
           /\ Cardinality(leaves) >= 2
           /\ MinimaxAI_scores(prev, <<m>>, 1, p).scores[1] \in leaves

\* The value minimax returns for the i-th move of a maximizing node on board
\* with the window the loop has reached there, and the best value of the
\* moves before it.
RECURSIVE AlphaBefore(_, _, _, _, _)
AlphaBefore(G, board, moves, i, player_id) ==
    IF i = 1 THEN -Infinity
    ELSE Max(AlphaBefore(G, board, moves, i - 1, player_id),
             SearchScore(G, make_move_on_copy(board, moves[i - 1][1],
                                              moves[i - 1][2], moves[i - 1][3],
                                              moves[i - 1][4]),
                         1, FALSE, player_id))

\* C25: for the snapshot of every reachable position, every player, both
\* kinds of node and every depth up to max_depth, the value minimax returned
\* when called with the window (-infinity, +infinity) is the value of the
\* search without cutoffs, so the cutoffs taken at beta <= alpha change no
\* value at the root.
C25_PruningExact ==
    ret.op = "minimax" =>
        ret.value = SearchScore(prev, copy_board(prev), ret.depth,
                                ret.is_maximizing, ret.player_id)

\* C25 witness: a search of depth 2 for the current player cut a branch:
\* below the root, with alpha at the best value of the earlier moves, the
\* minimizing loop stopped before the reply with the least evaluation, and
\* the value returned at the root is still that of the full search.
C25_Witness ==
    /\ ret.op = "minimax" /\ ret.depth = 2 /\ ret.is_maximizing
    /\ ret.player_id = CurrentPlayerId(prev)
    /\ LET p == ret.player_id
           board == copy_board(prev)
           moves == get_possible_moves(board, p)
       IN  /\ \E i \in 2 .. Len(moves) :
                 LET child == make_move_on_copy(board, moves[i][1], moves[i][2],
                                                moves[i][3], moves[i][4])
                     alpha == AlphaBefore(prev, board, moves, i, p)
                 IN  /\ alpha > -Infinity
                     /\ minimax(prev, child, 1, FALSE, p, alpha, Infinity)
                            # SearchScore(prev, child, 1, FALSE, p)
                     /\ minimax(prev, child, 1, FALSE, p, alpha, Infinity) <= alpha
           /\ ret.value = SearchScore(prev, board, 2, TRUE, p)

\* The orthogonally adjacent pairs (cell of p, cell of another player) on
\* grid g.
FacingPairs(g, p) ==
    UNION {{<<rc, n>> : n \in {n \in Neighbours(rc[1], rc[2]) :
                                  /\ g[n[1]][n[2]] # None
                                  /\ g[n[1]][n[2]].player_id # p}} :
           rc \in OwnedCells(g, p)}

CentreCells == {<<2, 2>>, <<2, 3>>, <<3, 2>>, <<3, 3>>}

\* The evaluation of grid g for player p as the sum of its four terms.
BoardValue(g, p) ==
    LET type_at(rc) == g[rc[1]][rc[2]].type
        own == Cardinality(OwnedCells(g, p))
        count == CountsOnBoard(g, p)
        least == CHOOSE k \in {count[t] : t \in PieceTypes} :
                     \A t \in PieceTypes : k <= count[t]
    IN  10 * (own - (PieceCount(g) - own))
        + 5 * least
        + 3 * Cardinality(CentreCells \cap OwnedCells(g, p))
        + 2 * Cardinality({x \in FacingPairs(g, p) :
                              Beats(type_at(x[1]), type_at(x[2]))})
        - 2 * Cardinality({x \in FacingPairs(g, p) :
                              Beats(type_at(x[2]), type_at(x[1]))})

\* C26: for every player p, evaluate_board of a snapshot of the board is
\* 10 x (p's pieces minus all other players' pieces) + 5 x p's least count
\* of a type + 3 x the centre cells p holds + 2 x the adjacent (own, enemy)
\* pairs the own type wins - 2 x those the enemy type wins; pairs of equal
\* types add nothing.
C26_EvaluateBoard ==
    \A p \in PlayerIds(num_players) :
        evaluate_board(copy_board(Self), p) = BoardValue(grid, p)

\* C26 witness: after a call on a set-up board of three players, a player
\* holds every type and a centre cell and faces enemy pieces it beats and
\* enemy pieces it loses to, and the evaluation is the sum of these terms,
\* not the material term alone.
C26_Witness ==
    /\ calls > 0 /\ num_players = 3
    /\ \E p \in PlayerIds(num_players) :
          LET type_at(rc) == grid[rc[1]][rc[2]].type
          IN  /\ \A t \in PieceTypes : CountsOnBoard(grid, p)[t] >= 1
              /\ CentreCells \cap OwnedCells(grid, p) # {}
              /\ \E x \in FacingPairs(grid, p) : Beats(type_at(x[1]), type_at(x[2]))
              /\ \E x \in FacingPairs(grid, p) : Beats(type_at(x[2]), type_at(x[1]))
              /\ evaluate_board(copy_board(Self), p) = BoardValue(grid, p)
              /\ evaluate_board(copy_board(Self), p)
                     # 10 * (2 * Cardinality(OwnedCells(grid, p)) - PieceCount(grid))

\* The moves of player p the live engine allows in game G: from each cell p
\* holds to each destination get_valid_moves lists for it.
EngineMoves(G, p) ==
    UNION {{<<rc[1], rc[2], to[1], to[2]>> :
               to \in SeqToSet(get_valid_moves(G, rc[1], rc[2]).moves)} :
           rc \in OwnedCells(G.grid, p)}

\* C27: on every reachable board copy_board holds in every cell the (type,
\* owner) pair of the live piece, or nothing where the live cell is empty,
\* and for every player get_possible_moves on that copy lists, once each,
\* exactly the moves from a cell of the player to a destination in
\* get_valid_moves of that cell.
C27_SnapshotMoves ==
    LET snap == copy_board(Self)
    IN  /\ \A rc \in Cells :
              snap.rows[rc[1]][rc[2]] =
                  IF At(Self, rc[1], rc[2]) = None THEN NoPiece
                  ELSE <<At(Self, rc[1], rc[2]).type,
                         At(Self, rc[1], rc[2]).player_id>>
        /\ \A p \in PlayerIds(num_players) :
              LET moves == get_possible_moves(snap, p)
              IN  /\ SeqToSet(moves) = EngineMoves(Self, p)
                  /\ Len(moves) = Cardinality(EngineMoves(Self, p))

\* C27 witness: after a move on a set-up board a player has, on the
\* snapshot as in the engine, both a move to an empty cell and a move onto
\* an enemy piece, and a piece of its own does not count as a destination.
C27_Witness ==
    /\ calls > 0 /\ is_setup
    /\ \E p \in PlayerIds(num_players) :
          LET moves == SeqToSet(get_possible_moves(copy_board(Self), p))
          IN  /\ moves = EngineMoves(Self, p)
              /\ \E m \in moves : At(Self, m[3], m[4]) = None
              /\ \E m \in moves : At(Self, m[3], m[4]) # None
              /\ \E rc \in OwnedCells(grid, p) :
                    \E to \in Neighbours(rc[1], rc[2]) \cap OwnedCells(grid, p) :
                        <<rc[1], rc[2], to[1], to[2]>> \notin moves

\* The category of a combat between pieces of types t1 and t2.
Category(t1, t2) ==
    IF "R" \in {t1, t2} THEN "combat_rock"
    ELSE IF "P" \in {t1, t2} THEN "combat_paper"
    ELSE "combat_scissors"

\* Move a of game G is a combat: its destination is on the board and holds
\* a piece of another owner than the piece on its source.
IsCombat(G, a) ==
    /\ InBounds(a[1], a[2]) /\ InBounds(a[3], a[4])
    /\ At(G, a[1], a[2]) # None /\ At(G, a[3], a[4]) # None
    /\ At(G, a[3], a[4]).player_id # At(G, a[1], a[2]).player_id

\* The grid an accepted move a leaves, told from the combat result alone.
OutcomeGrid(G, a) ==
    LET mover == At(G, a[1], a[2])
        target == At(G, a[3], a[4])
        left == IF target = None \/ Beats(mover.type, target.type) THEN mover
                ELSE IF Beats(target.type, mover.type) THEN target
                ELSE None
    IN  SetCell(SetCell(G.grid, a[1], a[2], None), a[3], a[4], left)

\* C28: the combat category move_piece and play_turn return is non-empty
\* exactly when the move was accepted and its destination held an enemy
\* piece; it is then rock if either piece is a Rock, else paper if either is
\* a Paper, else scissors; and the game an accepted move leaves is told by
\* the combat result alone, whatever the category: the grid of the outcome
\* and the turn next_turn gives on it.
C28_CombatCategory ==
    \A a \in MoveInputs(Self) :
        LET r == Played(Self, a)
            m == move_piece(grid, a[1], a[2], a[3], a[4])
            category == Category(At(Self, a[1], a[2]).type, At(Self, a[3], a[4]).type)
        IN  /\ r.combat_type # "" <=> (r.success /\ IsCombat(Self, a))
            /\ m.combat_type # "" <=> (m.success /\ IsCombat(Self, a))
            /\ r.combat_type # "" => r.combat_type = category
            /\ m.combat_type # "" => m.combat_type = category
            /\ r.success =>
                  r.game = next_turn([Self EXCEPT !.grid = OutcomeGrid(Self, a)])

\* C28 witness: the last play_turn was a combat without a Rock in which a
\* Paper took part, accepted and reported as a paper combat.
C28_Witness ==
    \E a \in MoveInputs(prev) :
        /\ LastPlayed(a) /\ ret.value /\ IsCombat(prev, a)
        /\ {At(prev, a[1], a[2]).type, At(prev, a[3], a[4]).type} = {"P", "S"}
        /\ ret.combat_type = "combat_paper"
        /\ Self = next_turn([prev EXCEPT !.grid = OutcomeGrid(prev, a)])

\* The games one call of play_turn, update_timer, next_turn or
\* check_game_over can leave from game G.
AfterOneCall(G) ==
    {Played(G, a).game : a \in MoveInputs(G)}
    \cup {update_timer(G, dt).game : dt \in Dts}
    \cup {next_turn(G), check_game_over(G).game}

\* C29: once game_over is true, every call of play_turn, update_timer,
\* next_turn or check_game_over leaves it true and leaves the recorded
\* winner, or the absence of one, as it was.
C29_GameOverStable ==
    game_over =>
        \A G \in AfterOneCall(Self) : G.game_over /\ G.winner = winner

\* C29 witness: a capture has just ended the game with a winner; after the
\* timer expires the winner's piece can still be moved by play_turn, and the
\* game stays over with the same winner through the expiry, the move and a
\* following check_game_over.
C29_Witness ==
    /\ calls > 0 /\ ret.op = "play_turn" /\ ~prev.game_over
    /\ game_over /\ winner # NoWinner
    /\ LET expired == update_timer(Self, TURN_TIME).game
       IN  /\ expired.game_over /\ expired.winner = winner
           /\ \E a \in MoveInputs(expired) :
                 LET r == Played(expired, a)
                 IN  /\ r.success /\ r.game.grid # grid
                     /\ r.game.game_over /\ r.game.winner = winner
                     /\ check_game_over(r.game).game.winner = winner

\* C30: in every reachable state, game_over implies that at most one player
\* has pieces on the board; a recorded winner implies game_over and that the
\* winner, and no other player, has pieces; game_over without a winner
\* implies an empty board.
C30_GameOverShape ==
    /\ game_over => Cardinality(PlayersWithPieces(Self)) <= 1
    /\ winner # NoWinner => (game_over /\ PlayersWithPieces(Self) = {winner})
    /\ (game_over /\ winner = NoWinner) => PieceCount(grid) = 0

\* C30 witness: the last call ended a game of three players, and the player
\* recorded as the winner is the only one with pieces on the board.
C30_Witness ==
    /\ calls > 0 /\ ~prev.game_over /\ game_over
    /\ num_players = 3
    /\ winner # NoWinner /\ PlayersWithPieces(Self) = {winner}
    /\ PieceCount(grid) >= 1

\* C31: an accepted move leaves every cell but its source and its
\* destination as it was; after any call of play_turn, update_timer,
\* next_turn or check_game_over every piece on the board is a piece that was
\* on the same cell before, or on a neighbouring cell it has left, with its
\* type and owner, so no player has more pieces on the board than before.
C31_MoveFrame ==
    /\ \A a \in MoveInputs(Self) :
          LET r == Played(Self, a)
          IN  r.success =>
                  \A rc \in Cells \ {<<a[1], a[2]>>, <<a[3], a[4]>>} :
                      At(r.game, rc[1], rc[2]) = At(Self, rc[1], rc[2])
    /\ \A G \in AfterOneCall(Self) :
          /\ \A rc \in Cells :
                At(G, rc[1], rc[2]) # None =>
                    \/ At(G, rc[1], rc[2]) = At(Self, rc[1], rc[2])
                    \/ \E n \in Neighbours(rc[1], rc[2]) :
                          /\ At(G, rc[1], rc[2]) = At(Self, n[1], n[2])
                          /\ At(G, n[1], n[2]) = None
          /\ \A p \in PlayerIds(num_players) :
                Cardinality(OwnedCells(G.grid, p))
                    <= Cardinality(OwnedCells(grid, p))

\* C31 witness: the last play_turn was an attack won by the moving piece:
\* it stands on the destination with its type and owner, the source is
\* empty, every other cell is as before, and the defender has one piece
\* fewer while the attacker has as many as before.
C31_Witness ==
    \E a \in MoveInputs(prev) :
        /\ LastPlayed(a) /\ ret.value /\ IsCombat(prev, a)
        /\ At(Self, a[3], a[4]) = At(prev, a[1], a[2])
        /\ At(Self, a[1], a[2]) = None
        /\ \A rc \in Cells \ {<<a[1], a[2]>>, <<a[3], a[4]>>} :
              At(Self, rc[1], rc[2]) = At(prev, rc[1], rc[2])
        /\ LET attacker == At(prev, a[1], a[2]).player_id
               defender == At(prev, a[3], a[4]).player_id
           IN  /\ Cardinality(OwnedCells(grid, defender))
                      = Cardinality(OwnedCells(prev.grid, defender)) - 1
               /\ Cardinality(OwnedCells(grid, attacker))
                      = Cardinality(OwnedCells(prev.grid, attacker))

\* The pieces of player p that have no legal destination on grid g: every
\* neighbour on the board holds a piece of p.
BlockedCells(g, p) ==
    {rc \in OwnedCells(g, p) : Neighbours(rc[1], rc[2]) \subseteq OwnedCells(g, p)}

\* C32: in every state reached from setup_board, every player with a piece
\* on the board has a piece with a neighbour on the board that is empty or
\* held by an enemy, get_valid_moves lists a destination for it, and so
\* get_valid_pieces_with_moves, whose empty result is what makes an AI
\* strategy return no move, is empty only for a player without pieces.
C32_AlwaysAMove ==
    is_setup =>
        /\ \A p \in PlayersWithPieces(Self) :
              /\ BlockedCells(grid, p) # OwnedCells(grid, p)
              /\ \E rc \in OwnedCells(grid, p) :
                    get_valid_moves(Self, rc[1], rc[2]).moves # <<>>
        /\ \A p \in PlayerIds(num_players) :
              get_valid_pieces_with_moves(Self, p) = <<>>
                  <=> OwnedCells(grid, p) = {}

\* C32 witness: after an accepted move on a set-up board the player to move
\* has pieces hemmed in by its own pieces and the edge, and still a piece
\* with a legal destination, which get_valid_pieces_with_moves lists.
C32_Witness ==
    /\ calls > 0 /\ ret.op = "play_turn" /\ ret.value
    /\ LET p == CurrentPlayerId(Self)
       IN  /\ BlockedCells(grid, p) # {}
           /\ BlockedCells(grid, p) # OwnedCells(grid, p)
           /\ Len(get_valid_pieces_with_moves(Self, p))
                  = Cardinality(OwnedCells(grid, p) \ BlockedCells(grid, p))

\* Time deltas of the timer claim: none, a second, and up to two turns.
TimerDeltas == {0, 1, 6, TURN_TIME, 2 * TURN_TIME}

\* The countdown t is running: above zero and at most the turn duration.
TimerRunning(t) == 0 < t /\ t <= TURN_TIME

\* C34: the turn timer is above zero and at most TURN_TIME in every state,
\* and after every further call of play_turn or of update_timer(dt) with
\* dt >= 0: a countdown that reaches zero or less is reset at once.
C34_TimerRange ==
    /\ TimerRunning(turn_timer)
    /\ \A dt \in TimerDeltas : TimerRunning(update_timer(Self, dt).game.turn_timer)
    /\ \A a \in MoveInputs(Self) : TimerRunning(Played(Self, a).game.turn_timer)

\* C34 witness: update_timer has just taken the countdown to zero or below
\* and the timer is back at TURN_TIME; a further update_timer(6) leaves it
\* running at 9.
C34_Witness ==
    /\ calls > 0 /\ ret.op = "update_timer" /\ ret.value
    /\ \E dt \in Dts : /\ prev.turn_timer - dt <= 0
                        /\ Self = update_timer(prev, dt).game
    /\ turn_timer = TURN_TIME
    /\ update_timer(Self, 6).game.turn_timer = TURN_TIME - 6

\* C33: after handle_board_click or play_ai_turn has made a successful
\* move, game_state is "game_over" exactly when at most one player has
\* pieces on the board.
C33_GuiGameOver ==
    (ret.op \in {"handle_board_click", "play_ai_turn"} /\ ret.value) =>
        (gui.game_state = "game_over"
            <=> Cardinality(PlayersWithPieces(Self)) <= 1)

\* C33 witness: a click has just moved the selected piece onto the last
\* enemy piece and captured it, and the GUI is in state "game_over".
C33_Witness ==
    /\ ret.op = "handle_board_click" /\ ret.value /\ ret.combat_type # ""
    /\ Cardinality(PlayersWithPieces(prev)) = 2
    /\ Cardinality(PlayersWithPieces(Self)) = 1
    /\ gui.game_state = "game_over" /\ game_over

\* C36 (as claimed): no click raises an exception in handle_board_click:
\* every click that is not ignored indexes the grid with 0 <= row < 6 and
\* 0 <= col < 6.
C36_ClickInRange ==
    gui.game_state = "game" =>
        \A mouse_pos \in ClickPositions(gui) :
            handle_board_click(Self, gui, mouse_pos).raised = ""

\* The indices of the candidate moves of the current player of G after
\* which the player at the next index has no move on the snapshot.
NoReplyCandidates(G) ==
    {i \in 1 .. Len(Candidates(G)) :
        SnapshotMoves(SnapshotAfter(G, Candidates(G)[i]).rows,
                      PlayerAfter(G, G.current_player_index, 1)) = {}}

\* The least element of a nonempty set of numbers.
Least(S) == CHOOSE x \in S : \A y \in S : x <= y

\* C35: when the player at the next index has no move on the snapshot after
\* some candidate, minimax gives every such candidate +infinity, and
\* MinimaxAI.choose_move returns the first of them in enumeration order for
\* every outcome of the random generator, whatever evaluate_board says.
C35_NoReplyWins ==
    InMainLoop =>
        LET cands == Candidates(Self)
            p == CurrentPlayerId(Self)
            none == NoReplyCandidates(Self)
        IN  none # {} =>
                /\ \A i \in none :
                      minimax(Self, SnapshotAfter(Self, cands[i]), max_depth - 1,
                              FALSE, p, -Infinity, Infinity) = Infinity
                /\ \A chosen \in choose_move("MinimaxAI", Self) :
                      chosen.move = cands[Least(none)]

\* C35 witness: the last AI turn played the move MinimaxAI returns, the
\* first candidate that leaves the next player without a move, although a
\* later such candidate has a better static evaluation.
C35_Witness ==
    /\ calls > 0 /\ HasLegalMove(prev)
    /\ LET cands == Candidates(prev)
           p == CurrentPlayerId(prev)
           none == NoReplyCandidates(prev)
       IN  /\ none # {}
           /\ MinimaxAI_searched(prev).best_move = Least(none)
           /\ LastAiPlayed(cands[Least(none)])
           /\ \E j \in none :
                 evaluate_board(SnapshotAfter(prev, cands[j]), p)
                     > evaluate_board(SnapshotAfter(prev, cands[Least(none)]), p)

\* The (type, owner) or empty content of every cell of a grid of pieces.
Content(g) ==
    [row \in Rows |-> [col \in Rows |->
        IF g[row][col] = None THEN NoPiece
        ELSE <<g[row][col].type, g[row][col].player_id>>]]

\* C37: simulated moves agree with real moves: for every legal move of every
\* player, make_move_on_copy on copy_board() leaves in every cell the content
\* the live grid has after Board.move_piece makes the same move, and
\* move_piece accepts the move.
C37_SimulationAgrees ==
    \A p \in PlayerIds(num_players) :
        \A m \in EngineMoves(Self, p) :
            LET real == move_piece(grid, m[1], m[2], m[3], m[4])
            IN  /\ real.success
                /\ SnapshotAfter(Self, m).rows = Content(real.grid)

\* C37 witness: the last AI turn attacked a piece that beats the attacker,
\* and the board it left is the one the simulation of the move gives.
C37_Witness ==
    /\ calls > 0
    /\ \E m \in EngineMoves(prev, CurrentPlayerId(prev)) :
          /\ LastAiPlayed(m)
          /\ At(prev, m[3], m[4]) # None
          /\ Beats(At(prev, m[3], m[4]).type, At(prev, m[1], m[2]).type)
          /\ SnapshotAfter(prev, m).rows = Content(grid)
          /\ At(Self, m[1], m[2]) = None
          /\ At(Self, m[3], m[4]) = At(prev, m[3], m[4])

====
